---- MODULE Spec2Model ----
(***************************************************************************)
(* Verification orchestration of the release controller: the backoff       *)
(* calculator, the prow job facade, the Verify orchestrator, the           *)
(* multi-attempt test orchestrators and the completeness evaluators.       *)
(* Time is counted in whole minutes.                                       *)
(***************************************************************************)
EXTENDS Integers, Sequences, FiniteSets, TLC

\* ------------------------------------------------------------------------
\* Bounds of the model
\* ------------------------------------------------------------------------
MaxTime == 2
MaxRetryCount == 5
MaxBackoffTime == 18
MaxMaxRetries == 2
MaxBehind == 1
NumWorkers == 2
MaxPatch == 32

\* ------------------------------------------------------------------------
\* Program constants
\* ------------------------------------------------------------------------
\* time.Minute * 1: the initial Duration of the wait.Backoff
BackoffBase == 1
\* Factor of the wait.Backoff
BackoffFactor == 2
\* Cap of the wait.Backoff: time.Minute * 15
BackoffCap == 15

releaseVerificationStateSucceeded == "Succeeded"
releaseVerificationStateFailed == "Failed"
releaseVerificationStatePending == "Pending"
\* a state that the orchestrators do not recognize
UnrecognizedState == "Unknown"

\* a nil *metav1.Time
NilTime == -1

\* a map without entries (a nil map reads the same)
EmptyMap == [x \in {} |-> 0]

\* an annotation: either JSON of a status map (data) or text that is no JSON
EmptyAnnotation == [valid |-> TRUE, data |-> EmptyMap]
CorruptAnnotation == [valid |-> FALSE, data |-> EmptyMap]

\* a worker that is not inside ensureProwJobForReleaseTag
IdleCall == [pc |-> "idle", verifyName |-> "", out |-> [State |-> "", CompletionTime |-> -1],
             err |-> "none", path |-> ""]

\* tsLast before the first reconcile of the tests
NoTestCall == [called |-> FALSE, err |-> "none", addAfter |-> <<>>, ensured |-> {}]

\* tsRun while ensureAdditionalTests is not running
NoRun == [pc |-> "idle", status |-> EmptyMap, order |-> <<>>, jobNo |-> 0,
          skipTest |-> FALSE, ensured |-> {}, repeated |-> {}]

\* evOut before the evaluators are called
NoEval == [called |-> FALSE, failures |-> {}, incomplete |-> {}, retry |-> {},
           blocking |-> FALSE, state |-> ""]

\* vfLast before the first reconcile
NoCall == [called |-> FALSE, err |-> "none", addAfter |-> <<>>, computed |-> <<>>,
           ensured |-> {}, same |-> FALSE]

\* a release that is not in Stable mode; a cluster without stable release
NoMode == ""
NoStableReleases == <<>>

VARIABLES
    bkRetryCount,   \* calculateBackoff: argument retryCount
    bkInitialTime,  \* calculateBackoff: argument initialTime (NilTime when nil)
    bkCurrentTime,  \* calculateBackoff: argument currentTime
    bkResult,       \* calculateBackoff: the returned duration
    bkCalled        \* whether calculateBackoff has returned

bkVars == <<bkRetryCount, bkInitialTime, bkCurrentTime, bkResult, bkCalled>>

VARIABLES
    now,            \* time.Now(), in minutes
    jobs,           \* the prow jobs of the cluster: name -> [State, CompletionTime]
    accepted,       \* names of the Accepted tags of the release, newest first
    stable          \* the stable releases: each the set of its accepted versions

envVars == <<now, jobs, accepted, stable>>

VARIABLES
    verifyConfig,   \* release.Config.Verify: slot -> ReleaseVerification
    verifyAnnotation, \* the release.openshift.io/verify annotation of the tag
    vfLast,         \* outcome of the last ensureVerificationJobs call
    vfEnsured       \* every (slot, retries) whose job was ever ensured

vfVars == <<verifyConfig, verifyAnnotation, vfLast, vfEnsured>>

VARIABLES
    lister,         \* c.prowLister: the informer's cache of the prow jobs
    call,           \* per worker: its call of ensureProwJobForReleaseTag
    created         \* how many jobs the cluster has created under each name

enVars == <<lister, call, created>>

VARIABLES
    testFamily,     \* the orchestrator that runs: "candidate" or "additional"
    testConfig,     \* release.Config.CandidateTests or AdditionalTests: name -> test
    testAnnotation, \* the annotation of the tag that holds the attempt lists
    tsLast,         \* outcome of the last reconcile of the tests
    tsRun           \* the ensureAdditionalTests call that is under way

tsVars == <<testFamily, testConfig, testAnnotation, tsLast, tsRun>>

VARIABLES
    evConfig,       \* the config handed to the completeness evaluators
    evStatus,       \* the status map or the attempt lists handed to them
    evOut           \* what the evaluators returned

evVars == <<evConfig, evStatus, evOut>>

VARIABLES
    nmArgs,         \* two (slot, attempt) pairs of one tag
    nmOut           \* the prow job names derived for them

nmVars == <<nmArgs, nmOut>>

VARIABLES
    rsArgs,         \* getUpgradeSource: release mode, tag, tags, upgradeFrom
    rsOut           \* getUpgradeSource: the returned sources and error

rsVars == <<rsArgs, rsOut>>

VARIABLES
    pjSpec,         \* the environment variables the pod spec of a periodic declares
    pjEnv,          \* the release: public repository, accepted tag, mirror
    pjOut           \* what ensureProwJobForReleaseTag returned for them

pjVars == <<pjSpec, pjEnv, pjOut>>

VARIABLES
    ujTag,          \* upgradeJobs: the tag under reconcile and its keep annotation
    ujGraph,        \* the upgrade graph: results recorded per source tag
    ujConfig,       \* the additional tests of the release config
    ujOut           \* the tests ensureAdditionalTests ranges over

ujVars == <<ujTag, ujGraph, ujConfig, ujOut>>

vars == <<bkVars, envVars, vfVars, enVars, tsVars, evVars, nmVars, rsVars, pjVars, ujVars>>

\* ------------------------------------------------------------------------
\* Backoff calculator
\* ------------------------------------------------------------------------

\* One call of (*wait.Backoff).Step on a backoff without jitter: it consumes
\* a step and multiplies Duration by Factor, clamping it to Cap (and then
\* dropping the steps that are left).
BackoffStep(b) ==
    IF b.Steps < 1
    THEN b
    ELSE LET next == b.Duration * BackoffFactor
         IN  IF BackoffCap > 0 /\ next > BackoffCap
             THEN [Duration |-> BackoffCap, Steps |-> 0]
             ELSE [Duration |-> next, Steps |-> b.Steps - 1]

\* for backoff.Steps > 0 { backoff.Step() }
RECURSIVE BackoffRun(_)
BackoffRun(b) == IF b.Steps > 0 THEN BackoffRun(BackoffStep(b)) ELSE b

calculateBackoff_noClamp(retryCount, initialTime, currentTime) ==
    IF retryCount < 1
    THEN 0
    ELSE LET stepped == BackoffRun([Duration |-> BackoffBase, Steps |-> retryCount]).Duration
         IN  IF initialTime # NilTime
             THEN stepped + (initialTime - currentTime)
             ELSE stepped

calculateBackoff(retryCount, initialTime, currentTime) ==
    IF retryCount < 1
    THEN 0
    ELSE LET stepped == BackoffRun([Duration |-> BackoffBase, Steps |-> retryCount]).Duration
             shifted == IF initialTime # NilTime
                        THEN stepped + (initialTime - currentTime)
                        ELSE stepped
         IN  IF shifted < 0 THEN 0 ELSE shifted

\* ------------------------------------------------------------------------
\* Specification of the backoff calculator alone: any call of
\* calculateBackoff on bounded arguments.
\* ------------------------------------------------------------------------
EnsureIdle ==
    /\ lister = EmptyMap
    /\ call = EmptyMap
    /\ created = EmptyMap

VerifyIdle ==
    /\ verifyConfig = EmptyMap
    /\ verifyAnnotation = EmptyAnnotation
    /\ vfLast = NoCall
    /\ vfEnsured = {}

TestsIdle ==
    /\ testFamily = ""
    /\ testConfig = EmptyMap
    /\ testAnnotation = EmptyAnnotation
    /\ tsLast = NoTestCall
    /\ tsRun = NoRun

EvalIdle ==
    /\ evConfig = EmptyMap
    /\ evStatus = EmptyMap
    /\ evOut = NoEval

NamesIdle ==
    /\ nmArgs = <<>>
    /\ nmOut = <<>>

NoSources == [called |-> FALSE, sources |-> <<>>, err |-> FALSE]

ResolveIdle ==
    /\ rsArgs = <<>>
    /\ rsOut = NoSources

NoEnsured == [called |-> FALSE, out |-> "", err |-> "none"]

ProwEnvIdle ==
    /\ pjSpec = <<>>
    /\ pjEnv = <<>>
    /\ pjOut = NoEnsured

NoUpgradeTests == [called |-> FALSE, tests |-> <<>>]

UpgradeJobsIdle ==
    /\ ujTag = <<>>
    /\ ujGraph = <<>>
    /\ ujConfig = <<>>
    /\ ujOut = NoUpgradeTests

BackoffIdle ==
    /\ bkRetryCount = 0
    /\ bkInitialTime = NilTime
    /\ bkCurrentTime = 0
    /\ bkResult = 0
    /\ bkCalled = FALSE

InitBackoff ==
    /\ now = 0
    /\ jobs = EmptyMap
    /\ accepted = <<>>
    /\ stable = NoStableReleases
    /\ EvalIdle
    /\ NamesIdle
    /\ ResolveIdle
    /\ ProwEnvIdle
    /\ UpgradeJobsIdle
    /\ VerifyIdle
    /\ EnsureIdle
    /\ TestsIdle
    /\ bkRetryCount \in -1..MaxRetryCount
    /\ bkInitialTime \in {NilTime} \cup 0..MaxBackoffTime
    /\ bkCurrentTime \in 0..MaxBackoffTime
    /\ bkResult = 0
    /\ bkCalled = FALSE

BackoffCall ==
    /\ ~bkCalled
    /\ bkResult' = calculateBackoff(bkRetryCount, bkInitialTime, bkCurrentTime)
    /\ bkCalled' = TRUE
    /\ UNCHANGED <<bkRetryCount, bkInitialTime, bkCurrentTime>>
    /\ UNCHANGED <<envVars, vfVars, enVars, tsVars, evVars, nmVars, rsVars, pjVars, ujVars>>

NextBackoff == BackoffCall

SpecBackoff == InitBackoff /\ [][NextBackoff]_vars

\* ------------------------------------------------------------------------
\* Claims about the backoff calculator
\* ------------------------------------------------------------------------
RECURSIVE Pow2(_)
Pow2(n) == IF n <= 0 THEN 1 ELSE 2 * Pow2(n - 1)

MinOf(a, b) == IF a < b THEN a ELSE b

\* the delay the backoff reaches after retryCount steps, in closed form
SteppedDelay(n) == MinOf(BackoffCap, BackoffBase * Pow2(n))

\* C7 (as claimed): for retryCount n >= 1 and transitionTime = now,
\* calculateBackoff returns min(15 minutes, 1 minute * 2^(n-1)).
C7_NominalDelayAsClaimed ==
    (bkCalled /\ bkRetryCount >= 1 /\ bkInitialTime = bkCurrentTime)
        => bkResult = MinOf(BackoffCap, BackoffBase * Pow2(bkRetryCount - 1))

\* calculateBackoff(1, t, t) has returned the base delay times the factor
C7_Witness ==
    /\ bkCalled
    /\ bkRetryCount = 1
    /\ bkInitialTime = bkCurrentTime
    /\ bkResult = BackoffBase * BackoffFactor

TagName == "4.5.3"

\* verifyType.ProwJob == nil
NoProwJob == ""

\* the periodics of the prow config, each with the environment variables its
\* pod spec declares
ProwPeriodics == {"e2e"}

PeriodicEnv(jobName) == <<"RELEASE_IMAGE_LATEST", "NAMESPACE">>

\* the keys of the env map that buildKVMapsForProwJob fills for this release
ReleaseEnv ==
    {"RELEASE_IMAGE_LATEST", "RELEASE_IMAGE_INITIAL", "NAMESPACE",
     "CLUSTER_DURATION", "IMAGE_FORMAT", "IMAGE_"}

\* the environment variables named IMAGE_<component>
ImageEnv == {"IMAGE_TESTS"}

hasProwJob(jobName) == jobName \in ProwPeriodics

\* addReleaseEnvToProwJobSpec: "ok", "noinputs" (false, nil) or "error"
RECURSIVE addReleaseEnvToProwJobSpec(_, _)
addReleaseEnvToProwJobSpec(specEnv, env) ==
    IF specEnv = <<>>
    THEN "ok"
    ELSE LET name == Head(specEnv)
         IN  IF name \in {"RELEASE_IMAGE_LATEST", "RELEASE_IMAGE_INITIAL",
                          "NAMESPACE", "CLUSTER_DURATION"}
             THEN IF name \in env
                  THEN addReleaseEnvToProwJobSpec(Tail(specEnv), env)
                  ELSE "noinputs"
             ELSE IF name = "IMAGE_FORMAT"
             THEN IF name \in env
                  THEN addReleaseEnvToProwJobSpec(Tail(specEnv), env)
                  ELSE "error"
             ELSE IF name \in ImageEnv
             THEN IF "IMAGE_" \in env
                  THEN addReleaseEnvToProwJobSpec(Tail(specEnv), env)
                  ELSE "error"
             ELSE addReleaseEnvToProwJobSpec(Tail(specEnv), env)

\* the longest name a prow job may have
NameLimit == 63

\* namespaceSafeHash(name)[:20]: a digest of the name, taken to be free of
\* collisions
namespaceSafeHash(name) == "sha512:" \o name

prowJobName(tag, verifyName) ==
    LET name == tag \o "-" \o verifyName
    IN  IF Len(name) > NameLimit THEN namespaceSafeHash(name) ELSE name

\* a prow job the controller has just built: Status.State = TriggeredState
TriggeredJob == [State |-> "triggered", CompletionTime |-> NilTime]

NoJob == [State |-> "", CompletionTime |-> NilTime]

\* the informer cache of the job lister when it lags behind the cluster on
\* the jobs in behind: it has not seen a lagging job's creation yet, or still
\* shows a lagging finished job as triggered
ListerCache(js, behind) ==
    LET seen == {name \in DOMAIN js : name \in behind => js[name].State # "triggered"}
    IN  [name \in seen |-> IF name \in behind THEN TriggeredJob ELSE js[name]]

\* c.prowLister.GetByKey
ListerGetByKey(cache, name) ==
    IF name \in DOMAIN cache
    THEN [exists |-> TRUE, obj |-> cache[name]]
    ELSE [exists |-> FALSE, obj |-> NoJob]

\* ensureProwJob with the existing job's status lost: AlreadyExists is
\* answered with the object that was just built
ensureProwJob_returnsBuilt(js, cache, name, fault) ==
    IF name \in DOMAIN js
    THEN [out |-> TriggeredJob, err |-> "none", jobs |-> js]
    ELSE IF fault = "invalid"
    THEN [out |-> NoJob, err |-> "terminal", jobs |-> js]
    ELSE IF fault = "error"
    THEN [out |-> NoJob, err |-> "error", jobs |-> js]
    ELSE [out |-> TriggeredJob, err |-> "none", jobs |-> (name :> TriggeredJob) @@ js]

\* ensureProwJob: Create on the cluster; on AlreadyExists the cached or the
\* live job; fault is the answer of the API server to a Create of a new name.
ensureProwJob(js, cache, name, fault) ==
    IF name \in DOMAIN js
    THEN LET cached == ListerGetByKey(cache, name)
         IN  IF cached.exists
             THEN [out |-> cached.obj, err |-> "none", jobs |-> js]
             ELSE [out |-> js[name], err |-> "none", jobs |-> js]
    ELSE IF fault = "invalid"
    THEN [out |-> NoJob, err |-> "terminal", jobs |-> js]
    ELSE IF fault = "error"
    THEN [out |-> NoJob, err |-> "error", jobs |-> js]
    ELSE [out |-> TriggeredJob, err |-> "none", jobs |-> (name :> TriggeredJob) @@ js]

\* buildKVMapsForProwJob: the keys of the env map of a release, which has
\* or lacks a public repository, an Accepted tag and a mirror
buildKVMapsForProwJob(release) ==
    {"NAMESPACE", "CLUSTER_DURATION"}
        \cup (IF release.repository THEN {"RELEASE_IMAGE_LATEST"} ELSE {})
        \cup (IF release.accepted THEN {"RELEASE_IMAGE_INITIAL"} ELSE {})
        \cup (IF release.mirror THEN {"IMAGE_FORMAT", "IMAGE_"} ELSE {})

\* the part of ensureProwJobForReleaseTag between the lookup in the lister
\* and the call of ensureProwJob: "create" when a job is to be created,
\* otherwise the result; first for a periodic that the prow config has
prowJobWithEnv(specEnv, env, t) ==
    LET ok == addReleaseEnvToProwJobSpec(specEnv, env)
    IN  IF ok = "error"
        THEN [out |-> NoJob, err |-> "error"]
        ELSE IF ok = "noinputs"
        THEN [out |-> [State |-> "success", CompletionTime |-> t], err |-> "none"]
        ELSE [out |-> TriggeredJob, err |-> "create"]

prowJobToCreate(verifyType, t) ==
    IF ~hasProwJob(verifyType.ProwJob)
    THEN [out |-> NoJob, err |-> "terminal"]
    ELSE prowJobWithEnv(PeriodicEnv(verifyType.ProwJob), ReleaseEnv, t)

\* ensureProwJobForReleaseTag (and ensureProwJobForAdditionalTest, which
\* differs in the params it passes to buildKVMapsForProwJob only)
ensureProwJobForReleaseTag(js, cache, verifyName, verifyType, fault, t) ==
    LET name == prowJobName(TagName, verifyName)
        cached == ListerGetByKey(cache, name)
        pj == prowJobToCreate(verifyType, t)
    IN  IF cached.exists
        THEN [out |-> cached.obj, err |-> "none", jobs |-> js]
        ELSE IF pj.err # "create"
        THEN [out |-> pj.out, err |-> pj.err, jobs |-> js]
        ELSE ensureProwJob(js, cache, name, fault)

\* prowJobVerificationStatus: the VerificationStatus of a prow job
prowJobVerificationStatus(job) ==
    [State |-> CASE job.State = "success" -> releaseVerificationStateSucceeded
                 [] job.State \in {"failure", "error", "aborted"} -> releaseVerificationStateFailed
                 [] OTHER -> releaseVerificationStatePending,
     Retries |-> 0,
     TransitionTime |-> job.CompletionTime]

\* ------------------------------------------------------------------------
\* Upgrade source resolver
\* ------------------------------------------------------------------------
releaseUpgradeFromPrevious == "Previous"
releaseUpgradeFromPreviousMinor == "PreviousMinor"
releaseUpgradeFromPreviousPatch == "PreviousPatch"
releaseUpgradeFromRallyPoint == "RallyPoint"
releaseConfigModeStable == "Stable"

\* a semantic version, and the result of a semver.Parse that failed
Version(major, minor, patch) == [Major |-> major, Minor |-> minor, Patch |-> patch]
NoVersion == Version(-1, -1, -1)

\* the name of the tag with this version
tagNameOf(v) ==
    ToString(v.Major) \o "." \o ToString(v.Minor) \o "." \o ToString(v.Patch)

\* semver.Parse(releaseTag.Name) of the tag under reconcile
TagVersion == Version(4, 5, 3)

VersionLess(a, b) ==
    \/ a.Major < b.Major
    \/ a.Major = b.Major /\ a.Minor < b.Minor
    \/ a.Major = b.Major /\ a.Minor = b.Minor /\ a.Patch < b.Patch

\* semanticTagsForRelease(stable.Release, releasePhaseAccepted) followed by
\* sort.Sort(versions): the accepted versions of a stable release, newest first
RECURSIVE semanticTagsForRelease(_)
semanticTagsForRelease(release) ==
    IF release = {} THEN <<>>
    ELSE LET newest == CHOOSE v \in release : \A w \in release : ~VersionLess(v, w)
         IN  <<newest>> \o semanticTagsForRelease(release \ {newest})

\* latestTagsWithMajorMinorSemanticVersion: the first maxTags versions of
\* the list that have the major and minor of version; nil, here the empty
\* sequence, when there is none
RECURSIVE latestTagsWithMajorMinorSemanticVersion(_, _, _)
latestTagsWithMajorMinorSemanticVersion(versions, version, maxTags) ==
    IF versions = <<>> \/ maxTags = 0 THEN <<>>
    ELSE IF Head(versions).Major = version.Major /\ Head(versions).Minor = version.Minor
    THEN <<Head(versions)>>
             \o latestTagsWithMajorMinorSemanticVersion(Tail(versions), version, maxTags - 1)
    ELSE latestTagsWithMajorMinorSemanticVersion(Tail(versions), version, maxTags)

\* the loop over ref.Releases: the tags of the first stable release that
\* has a tag of the line of version
RECURSIVE stableTags(_, _, _)
stableTags(releases, version, maxTags) ==
    IF releases = <<>> THEN <<>>
    ELSE LET v == latestTagsWithMajorMinorSemanticVersion(
                      semanticTagsForRelease(Head(releases)), version, maxTags)
         IN  IF v # <<>> THEN v ELSE stableTags(Tail(releases), version, maxTags)

\* isRallyPoint: the patch number of the tag is a multiple of ten
isRallyPoint(v) == v.Patch % 10 = 0

\* the number of tags the RallyPoint policy asks the stable line for
RallyPointMaxTags == 10

\* the RallyPoint loop over v with the rally point left out of the sources
RECURSIVE rallySources_stopsBefore(_)
rallySources_stopsBefore(v) ==
    IF v = <<>> THEN <<>>
    ELSE IF isRallyPoint(Head(v)) THEN <<>>
    ELSE <<tagNameOf(Head(v))>> \o rallySources_stopsBefore(Tail(v))

\* the RallyPoint loop over v: append each tag, break after a rally point
RECURSIVE rallySources(_)
rallySources(v) ==
    IF v = <<>> THEN <<>>
    ELSE IF isRallyPoint(Head(v)) THEN <<tagNameOf(Head(v))>>
    ELSE <<tagNameOf(Head(v))>> \o rallySources(Tail(v))

\* getUpgradeSource: mode is release.Config.As, version the parsed name of
\* the tag, acceptedTags the names of the release's Accepted tags newest
\* first, releases the stable releases (each the set of its accepted
\* versions; none when c.stableReleases() fails).  A policy that finds
\* nothing, or an unknown one, ends in the error return.
getUpgradeSource(mode, version, acceptedTags, releases, upgradeFrom) ==
    LET upgradeType == IF Len(upgradeFrom) > 0 THEN upgradeFrom
                       ELSE IF mode = releaseConfigModeStable
                       THEN releaseUpgradeFromPreviousPatch
                       ELSE releaseUpgradeFromPrevious
        invalid == [sources |-> <<>>, err |-> TRUE]
        one(v) == IF v # <<>>
                  THEN [sources |-> <<tagNameOf(v[1])>>, err |-> FALSE]
                  ELSE invalid
    IN  CASE upgradeType = releaseUpgradeFromPrevious ->
                 IF Len(acceptedTags) > 0
                 THEN [sources |-> <<Head(acceptedTags)>>, err |-> FALSE]
                 ELSE invalid
          [] upgradeType = releaseUpgradeFromPreviousMinor ->
                 IF version # NoVersion /\ version.Minor > 0
                 THEN one(stableTags(releases, [version EXCEPT !.Minor = @ - 1], 1))
                 ELSE invalid
          [] upgradeType = releaseUpgradeFromPreviousPatch ->
                 IF version # NoVersion
                 THEN one(stableTags(releases, version, 1))
                 ELSE invalid
          [] upgradeType = releaseUpgradeFromRallyPoint ->
                 IF version # NoVersion
                 THEN LET v == stableTags(releases, version, RallyPointMaxTags)
                      IN  IF v # <<>>
                          THEN [sources |-> rallySources(v), err |-> FALSE]
                          ELSE invalid
                 ELSE invalid
          [] OTHER -> invalid

\* ------------------------------------------------------------------------
\* Status codec
\* ------------------------------------------------------------------------
\* json.Unmarshal of the annotation into a fresh map: text that does not
\* parse leaves the map empty
DecodeStatus(annotation) ==
    IF annotation.valid THEN annotation.data ELSE EmptyMap

\* the annotation written back for a returned status map
EncodeStatus(status) == [valid |-> TRUE, data |-> status]

\* ------------------------------------------------------------------------
\* Verification orchestrator: ensureVerificationJobs
\* ------------------------------------------------------------------------
\* jobName := name, or name-<jobRetries>
verifyJobName(name, jobRetries) ==
    IF jobRetries > 0 THEN name \o "-" \o ToString(jobRetries) ELSE name

\* if retryQueueDelay == 0 || backoffDuration < retryQueueDelay
accumulateDelay(retryQueueDelay, backoffDuration) ==
    IF retryQueueDelay = 0 \/ backoffDuration < retryQueueDelay
    THEN backoffDuration
    ELSE retryQueueDelay

\* verifyEnsure with the statuses gathered so far handed back next to the
\* error of the ensure call
verifyEnsure_keepsStatus(acc, name, verifyType, jobRetries, behind, fault, t) ==
    LET source == getUpgradeSource(NoMode, TagVersion, accepted, stable,
                                       verifyType.UpgradeFrom)
    IN  IF verifyType.Upgrade /\ (source.err \/ Len(source.sources) = 0)
        THEN [acc EXCEPT !.returned = TRUE,
                         !.status = EmptyMap,
                         !.err = IF source.err THEN "error" ELSE "none"]
        ELSE
        LET jobName == verifyJobName(name, jobRetries)
            res == ensureProwJobForReleaseTag(acc.jobs, ListerCache(acc.jobs, behind),
                                              jobName, verifyType,
                                              IF name \in fault THEN "error" ELSE "none", t)
            status == [prowJobVerificationStatus(res.out) EXCEPT !.Retries = jobRetries]
            acc1 == [acc EXCEPT !.jobs = res.jobs,
                                !.ensured = @ \cup {<<name, jobRetries>>}]
        IN  IF res.err # "none"
            THEN [acc1 EXCEPT !.returned = TRUE, !.err = res.err]
            ELSE
            LET acc2 == [acc1 EXCEPT !.status = (name :> status) @@ @]
            IN  IF jobRetries >= verifyType.MaxRetries
                THEN acc2
                ELSE IF status.State = releaseVerificationStateFailed
                THEN LET backoffDuration == calculateBackoff(jobRetries, status.TransitionTime, t)
                     IN  [acc2 EXCEPT !.delay = accumulateDelay(@, backoffDuration),
                                      !.computed = Append(@, backoffDuration)]
                ELSE acc2

\* the part of the loop body after the switch on the prior state: resolve
\* the upgrade source, ensure the job, store its status, feed the retry delay
verifyEnsure(acc, name, verifyType, jobRetries, behind, fault, t) ==
    LET source == getUpgradeSource(NoMode, TagVersion, accepted, stable,
                                       verifyType.UpgradeFrom)
    IN  IF verifyType.Upgrade /\ (source.err \/ Len(source.sources) = 0)
        THEN [acc EXCEPT !.returned = TRUE,
                         !.status = EmptyMap,
                         !.err = IF source.err THEN "error" ELSE "none"]
        ELSE
        LET jobName == verifyJobName(name, jobRetries)
            res == ensureProwJobForReleaseTag(acc.jobs, ListerCache(acc.jobs, behind),
                                              jobName, verifyType,
                                              IF name \in fault THEN "error" ELSE "none", t)
            status == [prowJobVerificationStatus(res.out) EXCEPT !.Retries = jobRetries]
            acc1 == [acc EXCEPT !.jobs = res.jobs,
                                !.ensured = @ \cup {<<name, jobRetries>>}]
        IN  IF res.err # "none"
            THEN [acc1 EXCEPT !.returned = TRUE, !.status = EmptyMap, !.err = res.err]
            ELSE
            LET acc2 == [acc1 EXCEPT !.status = (name :> status) @@ @]
            IN  IF jobRetries >= verifyType.MaxRetries
                THEN acc2
                ELSE IF status.State = releaseVerificationStateFailed
                THEN LET backoffDuration == calculateBackoff(jobRetries, status.TransitionTime, t)
                     IN  [acc2 EXCEPT !.delay = accumulateDelay(@, backoffDuration),
                                      !.computed = Append(@, backoffDuration)]
                ELSE acc2

\* the loop body without the check of verifyType.Disabled
verifySlot_ignoresDisabled(acc, name, config, behind, fault, t) ==
    LET verifyType == config[name]
        ok == name \in DOMAIN acc.status
        status == acc.status[name]
    IN  IF verifyType.ProwJob = NoProwJob
        THEN acc
        ELSE IF ~ok
        THEN verifyEnsure(acc, name, verifyType, 0, behind, fault, t)
        ELSE IF status.State = releaseVerificationStateSucceeded
        THEN acc
        ELSE IF status.State = releaseVerificationStateFailed
        THEN LET jobRetries == status.Retries + 1
             IN  IF jobRetries > verifyType.MaxRetries
                 THEN acc
                 ELSE LET backoffDuration ==
                              IF status.TransitionTime # NilTime
                              THEN calculateBackoff(jobRetries - 1, status.TransitionTime, t)
                              ELSE 0
                      IN  IF backoffDuration > 0
                          THEN [acc EXCEPT !.delay = accumulateDelay(@, backoffDuration),
                                           !.computed = Append(@, backoffDuration)]
                          ELSE verifyEnsure(acc, name, verifyType, jobRetries, behind, fault, t)
        ELSE verifyEnsure(acc, name, verifyType, status.Retries, behind, fault, t)

verifySlot_noRetryGate(acc, name, config, behind, fault, t) ==
    LET verifyType == config[name]
        ok == name \in DOMAIN acc.status
        status == acc.status[name]
    IN  IF verifyType.Disabled
        THEN acc
        ELSE IF verifyType.ProwJob = NoProwJob
        THEN acc
        ELSE IF ~ok
        THEN verifyEnsure(acc, name, verifyType, 0, behind, fault, t)
        ELSE IF status.State = releaseVerificationStateSucceeded
        THEN acc
        ELSE IF status.State = releaseVerificationStateFailed
        THEN LET jobRetries == status.Retries + 1
                 backoffDuration ==
                     IF status.TransitionTime # NilTime
                     THEN calculateBackoff(jobRetries - 1, status.TransitionTime, t)
                     ELSE 0
             IN  IF backoffDuration > 0
                 THEN [acc EXCEPT !.delay = accumulateDelay(@, backoffDuration),
                                  !.computed = Append(@, backoffDuration)]
                 ELSE verifyEnsure(acc, name, verifyType, jobRetries, behind, fault, t)
        ELSE verifyEnsure(acc, name, verifyType, status.Retries, behind, fault, t)

\* one iteration of the loop over release.Config.Verify
verifySlot(acc, name, config, behind, fault, t) ==
    LET verifyType == config[name]
        ok == name \in DOMAIN acc.status
        status == acc.status[name]
    IN  IF verifyType.Disabled
        THEN acc
        ELSE IF verifyType.ProwJob = NoProwJob
        THEN acc
        ELSE IF ~ok
        THEN verifyEnsure(acc, name, verifyType, 0, behind, fault, t)
        ELSE IF status.State = releaseVerificationStateSucceeded
        THEN acc
        ELSE IF status.State = releaseVerificationStateFailed
        THEN LET jobRetries == status.Retries + 1
             IN  IF jobRetries > verifyType.MaxRetries
                 THEN acc
                 ELSE LET backoffDuration ==
                              IF status.TransitionTime # NilTime
                              THEN calculateBackoff(jobRetries - 1, status.TransitionTime, t)
                              ELSE 0
                      IN  IF backoffDuration > 0
                          THEN [acc EXCEPT !.delay = accumulateDelay(@, backoffDuration),
                                           !.computed = Append(@, backoffDuration)]
                          ELSE verifyEnsure(acc, name, verifyType, jobRetries, behind, fault, t)
        ELSE verifyEnsure(acc, name, verifyType, status.Retries, behind, fault, t)

RECURSIVE verifyRange(_, _, _, _, _, _)
verifyRange(acc, order, config, behind, fault, t) ==
    IF order = <<>> \/ acc.returned
    THEN acc
    ELSE verifyRange(verifySlot(acc, Head(order), config, behind, fault, t),
                     Tail(order), config, behind, fault, t)

\* ensureVerificationJobs(release, releaseTag): order is the order in which
\* the range over the config map yields the slots, behind the lag of the job
\* lister, fault the slots whose job creation the API server refuses, t the
\* time.  The result holds the returned status map and error, the calls of
\* queue.AddAfter, the cluster's jobs, and what was ensured and computed.
ensureVerificationJobs(config, annotation, js, order, behind, fault, t) ==
    LET start == [status |-> DecodeStatus(annotation), delay |-> 0, jobs |-> js,
                  returned |-> FALSE, err |-> "none", computed |-> <<>>,
                  ensured |-> {}, addAfter |-> <<>>]
        acc == verifyRange(start, order, config, behind, fault, t)
    IN  IF ~acc.returned /\ acc.delay > 0
        THEN [acc EXCEPT !.addAfter = <<acc.delay>>]
        ELSE acc

\* ------------------------------------------------------------------------
\* Specification of the Verify orchestrator: one tag with a fixed config,
\* reconciled again and again while time passes and its jobs finish.
\* ------------------------------------------------------------------------
Slots == {"aws", "gcp"}

Verification(disabled, optional, upgrade, prowJob, maxRetries) ==
    [Disabled |-> disabled, Optional |-> optional, Upgrade |-> upgrade,
     UpgradeFrom |-> "", ProwJob |-> prowJob, MaxRetries |-> maxRetries]

\* the gating slot: a required job with no retry or with MaxMaxRetries retries
PrimaryKinds ==
    {Verification(FALSE, FALSE, FALSE, "e2e", m) : m \in {0, MaxMaxRetries}}

\* the second slot: required, disabled, an upgrade job, a manual
\* verification, a job that the prow config does not define
VerifyKinds ==
    {Verification(FALSE, FALSE, FALSE, "e2e", 1),
     Verification(TRUE, FALSE, FALSE, "e2e", 1),
     Verification(FALSE, FALSE, TRUE, "e2e", 1),
     Verification(FALSE, FALSE, FALSE, NoProwJob, 0),
     Verification(FALSE, FALSE, FALSE, "gone", 1)}

VerifyConfigs ==
    {[s \in Slots |-> IF s = "aws" THEN k1 ELSE k2] :
        k1 \in PrimaryKinds, k2 \in VerifyKinds}

\* the orders in which a range over a map with these keys can yield them
Orders(keys) ==
    {o \in [1..Cardinality(keys) -> keys] : \A i, j \in DOMAIN o : i # j => o[i] # o[j]}

\* the lags the job lister can have: the jobs it is behind on
Lags(js) == {b \in SUBSET (DOMAIN js) : Cardinality(b) <= MaxBehind}

\* the slots whose job creation the API server refuses in one reconcile
Faults == {{}, Slots}

\* annotations that hold a status for a slot that the config has disabled
\* since: Failed with its retries used up, or Pending
StaleAnnotations(config) ==
    {EncodeStatus((name :> [State |-> state, Retries |-> config[name].MaxRetries,
                            TransitionTime |-> NilTime])) :
        name \in {s \in DOMAIN config : config[s].Disabled},
        state \in {releaseVerificationStateFailed, releaseVerificationStatePending}}

InitVerify ==
    /\ EvalIdle
    /\ NamesIdle
    /\ ResolveIdle
    /\ ProwEnvIdle
    /\ UpgradeJobsIdle
    /\ BackoffIdle
    /\ EnsureIdle
    /\ TestsIdle
    /\ now = 0
    /\ jobs = EmptyMap
    /\ verifyConfig \in VerifyConfigs
    /\ accepted \in {<<>>, <<"4.5.2">>}
    /\ (accepted # <<>>) => \E s \in Slots : verifyConfig[s].Upgrade
    /\ stable = NoStableReleases
    /\ verifyAnnotation \in {EmptyAnnotation, CorruptAnnotation}
                              \cup StaleAnnotations(verifyConfig)
    /\ vfLast = NoCall
    /\ vfEnsured = {}

\* a minute passes
Tick ==
    /\ now < MaxTime
    /\ now' = now + 1
    /\ UNCHANGED <<jobs, accepted, stable>>

\* a triggered prow job completes
JobFinish ==
    \E name \in DOMAIN jobs, state \in {"success", "failure"} :
        /\ jobs[name].State = "triggered"
        /\ jobs' = [jobs EXCEPT ![name] = [State |-> state, CompletionTime |-> now]]
        /\ UNCHANGED <<now, accepted, stable>>

\* one reconcile of the tag: ensureVerificationJobs, then the write of the
\* returned status map to the annotation when no error was returned
VerifySync ==
    \E order \in Orders(DOMAIN verifyConfig), behind \in Lags(jobs),
       fault \in Faults :
        \E r \in {ensureVerificationJobs(verifyConfig, verifyAnnotation, jobs,
                                         order, behind, fault, now)} :
            /\ jobs' = r.jobs
            /\ verifyAnnotation' = IF r.err = "none"
                                   THEN EncodeStatus(r.status)
                                   ELSE verifyAnnotation
            /\ vfLast' = [called |-> TRUE, err |-> r.err, addAfter |-> r.addAfter,
                          computed |-> r.computed, ensured |-> r.ensured,
                          same |-> /\ vfLast.called
                                   /\ r.err = "none"
                                   /\ r.jobs = jobs
                                   /\ EncodeStatus(r.status) = verifyAnnotation]
            /\ vfEnsured' = vfEnsured \cup r.ensured
            /\ UNCHANGED <<now, accepted, stable, verifyConfig>>

NextVerify ==
    \/ Tick /\ UNCHANGED <<bkVars, vfVars, enVars, tsVars, evVars, nmVars, rsVars, pjVars, ujVars>>
    \/ JobFinish /\ UNCHANGED <<bkVars, vfVars, enVars, tsVars, evVars, nmVars, rsVars, pjVars, ujVars>>
    \/ VerifySync /\ UNCHANGED <<bkVars, enVars, tsVars, evVars, nmVars, rsVars, pjVars, ujVars>>

SpecVerify == InitVerify /\ [][NextVerify]_vars

\* verificationJobsWithRetries with the Optional flag of a slot ignored
verificationJobsWithRetries_ignoresOptional(config, result) ==
    LET enabled == {name \in DOMAIN config : ~config[name].Disabled}
        exhausted(name) ==
            /\ name \in DOMAIN result
            /\ result[name].State = releaseVerificationStateFailed
            /\ result[name].Retries >= config[name].MaxRetries
    IN  [names |-> {name \in enabled :
                       \/ name \notin DOMAIN result
                       \/ /\ result[name].State = releaseVerificationStateFailed
                          /\ result[name].Retries < config[name].MaxRetries},
         blockingJobFailure |-> \E name \in enabled : exhausted(name)]

\* ------------------------------------------------------------------------
\* Completeness evaluator
\* ------------------------------------------------------------------------
\* verificationJobsWithRetries(jobs, result): the names still to be run (in
\* no particular order) and whether a required job failed for good
verificationJobsWithRetries(config, result) ==
    LET enabled == {name \in DOMAIN config : ~config[name].Disabled}
        exhausted(name) ==
            /\ name \in DOMAIN result
            /\ result[name].State = releaseVerificationStateFailed
            /\ result[name].Retries >= config[name].MaxRetries
    IN  [names |-> {name \in enabled :
                       \/ name \notin DOMAIN result
                       \/ /\ result[name].State = releaseVerificationStateFailed
                          /\ result[name].Retries < config[name].MaxRetries},
         blockingJobFailure |->
             \E name \in enabled : exhausted(name) /\ ~config[name].Optional]

\* ------------------------------------------------------------------------
\* Claims about the Verify orchestrator
\* ------------------------------------------------------------------------
verifyStatus == DecodeStatus(verifyAnnotation)

RECURSIVE SeqMin(_)
SeqMin(s) ==
    IF Len(s) = 1 THEN s[1] ELSE MinOf(s[1], SeqMin(Tail(s)))

\* C2: the persisted retries of a slot never exceed its maxRetries, and only
\* the jobs of attempts 0..maxRetries of a slot are ever ensured.
C2_RetriesBounded ==
    /\ \A name \in DOMAIN verifyStatus :
           verifyStatus[name].Retries <= verifyConfig[name].MaxRetries
    /\ \A e \in vfEnsured :
           e[2] \in 0..verifyConfig[e[1]].MaxRetries

C2_Witness ==
    /\ "aws" \in DOMAIN verifyStatus
    /\ verifyConfig["aws"].MaxRetries = MaxMaxRetries
    /\ verifyStatus["aws"].Retries = MaxMaxRetries
    /\ verifyStatus["aws"].State = releaseVerificationStateFailed
    /\ \A k \in 0..MaxMaxRetries : <<"aws", k>> \in vfEnsured

\* a slot whose persisted status makes the next reconcile run a retry now
RetryDue(config, status, name, t) ==
    /\ ~config[name].Disabled
    /\ config[name].ProwJob # NoProwJob
    /\ name \in DOMAIN status
    /\ status[name].State = releaseVerificationStateFailed
    /\ status[name].Retries + 1 <= config[name].MaxRetries
    /\ \/ status[name].TransitionTime = NilTime
       \/ calculateBackoff(status[name].Retries, status[name].TransitionTime, t) = 0

\* a second reconcile, run on what the first one returned, with the job
\* lister lagging as before and no refused creation, changes nothing
SecondRunSame(first, behind) ==
    \A order \in Orders(DOMAIN verifyConfig) :
        LET second == ensureVerificationJobs(verifyConfig, EncodeStatus(first.status),
                                             first.jobs, order, behind, {}, now)
        IN  /\ second.err = "none"
            /\ second.status = first.status
            /\ second.jobs = first.jobs

\* C6 (as claimed): a second reconcile on the result of the first, the job
\* facade answering alike, yields the same status map and creates no job.
C6_IdempotentAsClaimed ==
    \A order \in Orders(DOMAIN verifyConfig), behind \in Lags(jobs) :
        LET first == ensureVerificationJobs(verifyConfig, verifyAnnotation, jobs,
                                            order, behind, {}, now)
        IN  first.err = "none" => SecondRunSame(first, behind)

\* C6 (amended): the same, when the first reconcile leaves no slot Failed
\* with a retry that is due.
C6_IdempotentUnlessRetryDue ==
    \A order \in Orders(DOMAIN verifyConfig), behind \in Lags(jobs) :
        LET first == ensureVerificationJobs(verifyConfig, verifyAnnotation, jobs,
                                            order, behind, {}, now)
        IN  (/\ first.err = "none"
             /\ \A name \in Slots : ~RetryDue(verifyConfig, first.status, name, now))
                => SecondRunSame(first, behind)

\* a reconcile that ensured jobs, one of them still pending, found the
\* annotation and the jobs as it left them: it ran on its own result
C6_Witness ==
    /\ vfLast.called
    /\ vfLast.err = "none"
    /\ vfLast.same
    /\ vfLast.ensured # {}
    /\ \E name \in DOMAIN verifyStatus :
           verifyStatus[name].State = releaseVerificationStatePending

\* C9 (as claimed): with maxRetries = 2 and every attempt observed Failed,
\* the reconciles at t = 0, 1 and 3 minutes ask for a re-enqueue after 1
\* minute, after 2 minutes, and not at all; the status ends as Failed with
\* retries = 2, which is a blocking failure.
C9_ScenarioAsClaimed ==
    LET observed(k, t) ==
            /\ verifyConfig["aws"].MaxRetries = 2
            /\ verifyConfig["gcp"].Disabled
            /\ vfLast.called
            /\ vfLast.err = "none"
            /\ <<"aws", k>> \in vfLast.ensured
            /\ now = t
            /\ "aws" \in DOMAIN verifyStatus
            /\ verifyStatus["aws"].State = releaseVerificationStateFailed
            /\ verifyStatus["aws"].Retries = k
            /\ verifyStatus["aws"].TransitionTime = t
    IN  /\ observed(0, 0) => vfLast.addAfter = <<1>>
        /\ observed(1, 1) => vfLast.addAfter = <<2>>
        /\ observed(2, 3) =>
              /\ vfLast.addAfter = <<>>
              /\ verificationJobsWithRetries(verifyConfig, verifyStatus).blockingJobFailure

\* the first attempt of a slot with two retries was observed Failed at
\* t = 0 and the reconcile asked for no re-enqueue
C9_Witness ==
    /\ verifyConfig["aws"].MaxRetries = 2
    /\ verifyConfig["gcp"].Disabled
    /\ vfLast.called
    /\ vfLast.err = "none"
    /\ <<"aws", 0>> \in vfLast.ensured
    /\ now = 0
    /\ "aws" \in DOMAIN verifyStatus
    /\ verifyStatus["aws"].State = releaseVerificationStateFailed
    /\ verifyStatus["aws"].Retries = 0
    /\ vfLast.computed = <<0>>
    /\ vfLast.addAfter = <<>>

\* C10 (as claimed): a reconcile calls AddAfter at most once, with the
\* minimum of the backoff delays it computed, and not at all when that is 0.
C10_MinimumDelayAsClaimed ==
    (vfLast.called /\ vfLast.err = "none") =>
        LET least == IF vfLast.computed = <<>> THEN 0 ELSE SeqMin(vfLast.computed)
        IN  vfLast.addAfter = IF least > 0 THEN <<least>> ELSE <<>>

\* a reconcile computed a delay of 0 for one slot and then one of 2 minutes
\* for another, and asked for a re-enqueue after 2 minutes
C10_Witness ==
    /\ vfLast.called
    /\ vfLast.err = "none"
    /\ vfLast.computed = <<0, 2>>
    /\ vfLast.addAfter = <<2>>

\* ------------------------------------------------------------------------
\* Multi-attempt orchestrator of the candidate tests: ensureCandidateTests
\* ------------------------------------------------------------------------
RetryStrategyTillMaxRetries == "TillMaxRetries"
RetryStrategyFirstSuccess == "FirstSuccess"
RetryStrategyTillRetryCount == "TillRetryCount"
RetryStrategyFirstFailure == "FirstFailure"
DefaultRetryStrategy == RetryStrategyFirstSuccess

\* a test whose config names no retry strategy: len(retryStrategy) == 0
NoRetryStrategy == ""

\* a ReleaseCandidateTest or ReleaseAdditionalTest: a ReleaseVerification
\* with its retry strategy, and for an additional test Retry.RetryCount
Test(disabled, upgrade, prowJob, strategy, maxRetries, retryCount) ==
    [Disabled |-> disabled, Optional |-> FALSE, Upgrade |-> upgrade,
     UpgradeFrom |-> "", ProwJob |-> prowJob, MaxRetries |-> maxRetries,
     UpgradeTag |-> "", UpgradeRef |-> "", RetryStrategy |-> strategy, RetryCount |-> retryCount]

\* the attempts recorded for a name: testStatus[name], nil when absent
attemptsOf(status, name) == IF name \in DOMAIN status THEN status[name] ELSE <<>>

\* the first loop of ensureCandidateTests: the candidate tests by name, with
\* the pull spec of an upgrade source: the public repository of its release
\* and the name of its tag
PublicDockerImageRepository == "registry/release"
pullSpecOf(tag) == PublicDockerImageRepository \o ":" \o tag

\* the names of a sequence that are not yet in names, appended to it
RECURSIVE appendNew(_, _)
appendNew(names, more) ==
    IF more = <<>> THEN names
    ELSE appendNew(IF \E i \in DOMAIN names : names[i] = Head(more)
                   THEN names ELSE Append(names, Head(more)),
                   Tail(more))

\* every source stored under the name of the test
candidateTestNames_keepsName(name, sources) ==
    [i \in DOMAIN sources |-> name]

\* the names under which an upgrade test is stored, one for each of its
\* sources: the name of the test, followed by the tag of the source when
\* there is more than one source
candidateTestNames(name, sources) ==
    [i \in DOMAIN sources |->
        IF Len(sources) > 1 THEN name \o "-" \o sources[i] ELSE name]

\* the copies of an upgrade test, one for each name, each with the tag and
\* the pull spec of its source; of two sources stored under one name the
\* later one stays
fanOutTest(testType, sources, names) ==
    [n \in {names[i] : i \in DOMAIN names} |->
        LET src == sources[CHOOSE i \in DOMAIN names :
                       /\ names[i] = n
                       /\ \A j \in DOMAIN names : names[j] = n => j <= i]
        IN  [testType EXCEPT !.UpgradeTag = src, !.UpgradeRef = pullSpecOf(src)]]

\* one iteration of the first loop: source is what getUpgradeSource returns
\* for the test (it returns no empty list without an error)
expandCandidateTest(acc, name, testType, source) ==
    IF testType.Disabled \/ testType.ProwJob = NoProwJob
    THEN acc
    ELSE IF ~testType.Upgrade
    THEN [acc EXCEPT !.tests = (name :> testType) @@ @,
                     !.names = appendNew(@, <<name>>)]
    ELSE IF source.err \/ Len(source.sources) = 0
    THEN [acc EXCEPT !.err = TRUE]
    ELSE [acc EXCEPT !.tests = fanOutTest(testType, source.sources,
                                           candidateTestNames(name, source.sources)) @@ @,
                     !.names = appendNew(@, candidateTestNames(name, source.sources))]

\* the first loop of ensureCandidateTests: candidateTests, an upgrade test
\* fanned out over its upgrade sources; names holds the keys in the order
\* of their insertion
RECURSIVE expandCandidateTests(_, _, _)
expandCandidateTests(acc, order, config) ==
    IF order = <<>> \/ acc.err
    THEN acc
    ELSE expandCandidateTests(
             expandCandidateTest(acc, Head(order), config[Head(order)],
                                 getUpgradeSource(NoMode, TagVersion, accepted, stable,
                                                  config[Head(order)].UpgradeFrom)),
             Tail(order), config)

RECURSIVE candidateScan_ignoresStrategy(_, _, _, _)
candidateScan_ignoresStrategy(list, test, jobNo, failed) ==
    IF list = <<>>
    THEN [jobNo |-> jobNo, failed |-> failed]
    ELSE IF Head(list).State = releaseVerificationStateSucceeded
    THEN candidateScan_ignoresStrategy(Tail(list), test, jobNo + 1, 0)
    ELSE IF Head(list).State = releaseVerificationStateFailed
    THEN candidateScan_ignoresStrategy(Tail(list), test, jobNo + 1, failed + 1)
    ELSE [jobNo |-> jobNo, failed |-> failed]

RECURSIVE candidateScan_retriesFailed(_, _, _, _)
candidateScan_retriesFailed(list, test, jobNo, failed) ==
    IF list = <<>>
    THEN [jobNo |-> jobNo, failed |-> failed]
    ELSE IF Head(list).State = releaseVerificationStateSucceeded
    THEN IF test.RetryStrategy = RetryStrategyFirstSuccess
         THEN [jobNo |-> test.MaxRetries + 1, failed |-> 0]
         ELSE candidateScan_retriesFailed(Tail(list), test, jobNo + 1, 0)
    ELSE [jobNo |-> jobNo, failed |-> failed]

\* the scan of the recorded attempts of a test: jobNo is the attempt to
\* ensure and failed the failures in a row before it.  A Succeeded or Failed
\* attempt is passed over; under FirstSuccess a Succeeded one ends the test
\* (the break leaves the switch, the break after the switch the loop); a
\* Pending or unrecognized attempt ends the scan.
RECURSIVE candidateScan(_, _, _, _)
candidateScan(list, test, jobNo, failed) ==
    IF list = <<>>
    THEN [jobNo |-> jobNo, failed |-> failed]
    ELSE IF Head(list).State = releaseVerificationStateSucceeded
    THEN IF test.RetryStrategy = RetryStrategyFirstSuccess
         THEN [jobNo |-> test.MaxRetries + 1, failed |-> 0]
         ELSE candidateScan(Tail(list), test, jobNo + 1, 0)
    ELSE IF Head(list).State = releaseVerificationStateFailed
    THEN candidateScan(Tail(list), test, jobNo + 1, failed + 1)
    ELSE [jobNo |-> jobNo, failed |-> failed]

candidateStore_append(list, jobNo, status) ==
    [panic |-> FALSE, list |-> Append(list, status)]

\* if len(testStatus[name]) < jobNo { append } else { testStatus[name][jobNo] = status }:
\* the assignment to an index that the list does not have panics
candidateStore(list, jobNo, status) ==
    IF Len(list) < jobNo
    THEN [panic |-> FALSE, list |-> Append(list, status)]
    ELSE IF jobNo < Len(list)
    THEN [panic |-> FALSE, list |-> [list EXCEPT ![jobNo + 1] = status]]
    ELSE [panic |-> TRUE, list |-> list]

\* one iteration of the loop over candidateTests
candidateSlot(acc, name, tests, behind, fault, t) ==
    LET test == tests[name]
        list == attemptsOf(acc.status, name)
        scan == candidateScan(list, test, 0, 0)
        jobNo == scan.jobNo
    IN  IF jobNo > test.MaxRetries
        THEN acc
        ELSE
        LET res == ensureProwJobForReleaseTag(acc.jobs, ListerCache(acc.jobs, behind),
                                              verifyJobName(name, jobNo), test,
                                              IF name \in fault THEN "error" ELSE "none", t)
            status == [prowJobVerificationStatus(res.out) EXCEPT !.Retries = jobNo]
            stored == candidateStore(list, jobNo, status)
            acc1 == [acc EXCEPT !.jobs = res.jobs,
                                !.ensured = @ \cup {<<name, jobNo>>}]
        IN  IF res.err # "none"
            THEN [acc1 EXCEPT !.returned = TRUE, !.status = EmptyMap, !.err = res.err]
            ELSE IF stored.panic
            THEN [acc1 EXCEPT !.returned = TRUE, !.status = EmptyMap, !.err = "panic"]
            ELSE
            LET acc2 == [acc1 EXCEPT !.status = (name :> stored.list) @@ @]
            IN  IF jobNo >= test.MaxRetries
                THEN acc2
                ELSE IF status.State = releaseVerificationStateFailed
                THEN LET backoffDuration ==
                             calculateBackoff(scan.failed, status.TransitionTime, t)
                     IN  [acc2 EXCEPT !.delay = accumulateDelay(@, backoffDuration),
                                      !.computed = Append(@, backoffDuration)]
                ELSE acc2

RECURSIVE candidateRange(_, _, _, _, _, _)
candidateRange(acc, order, tests, behind, fault, t) ==
    IF order = <<>> \/ acc.returned
    THEN acc
    ELSE candidateRange(candidateSlot(acc, Head(order), tests, behind, fault, t),
                        Tail(order), tests, behind, fault, t)

\* ensureCandidateTests(release, releaseTag): order is the order in which
\* the ranges over the config and over candidateTests yield the names
ensureCandidateTests(config, annotation, js, order, behind, fault, t) ==
    LET expanded == expandCandidateTests([tests |-> EmptyMap, names |-> <<>>,
                                          err |-> FALSE],
                                         SelectSeq(order, LAMBDA n : n \in DOMAIN config),
                                         config)
        start == [status |-> DecodeStatus(annotation), delay |-> 0, jobs |-> js,
                  returned |-> FALSE, err |-> "none", computed |-> <<>>,
                  ensured |-> {}, addAfter |-> <<>>]
        \* the range over candidateTests follows order, a name that order
        \* leaves out comes after in the order of its insertion
        names == appendNew(SelectSeq(order, LAMBDA n : n \in DOMAIN expanded.tests),
                           expanded.names)
        acc == candidateRange(start, names, expanded.tests, behind, fault, t)
    IN  IF expanded.err
        THEN [start EXCEPT !.returned = TRUE, !.status = EmptyMap, !.err = "error"]
        ELSE IF ~acc.returned /\ acc.delay > 0
        THEN [acc EXCEPT !.addAfter = <<acc.delay>>]
        ELSE acc

\* ------------------------------------------------------------------------
\* Multi-attempt orchestrator of the additional tests: ensureAdditionalTests.
\* Its loop over the attempts of a test does not advance past an attempt
\* whose job is still pending: it ensures that job again until the job has
\* finished, so one call spans steps of the environment.
\* ------------------------------------------------------------------------
\* additionalStep with the loop stepping to the next attempt after every
\* ensure, whatever the state of the job
additionalStep_advancesPending(config, run, js, behind, fault, t) ==
    LET name == Head(run.order)
        testType == config[name]
        list == attemptsOf(run.status, name)
        jobNo == run.jobNo
        state == list[jobNo + 1].State
        nextTest == [run EXCEPT !.order = Tail(@), !.jobNo = 0, !.skipTest = FALSE]
        res == ensureProwJobForReleaseTag(js, ListerCache(js, behind),
                                          name \o "-" \o ToString(jobNo), testType,
                                          IF name \in fault THEN "error" ELSE "none", t)
        status == prowJobVerificationStatus(res.out)
        stored == IF Len(list) <= jobNo
                  THEN Append(list, status)
                  ELSE [list EXCEPT ![jobNo + 1] = status]
        ensured == [run EXCEPT !.ensured = @ \cup {<<name, jobNo>>},
                               !.repeated = IF <<name, jobNo>> \in run.ensured
                                            THEN @ \cup {<<name, jobNo>>}
                                            ELSE @]
    IN  IF testType.Disabled \/ testType.ProwJob = NoProwJob
        THEN [run |-> nextTest, jobs |-> js, err |-> "none"]
        ELSE IF testType.RetryStrategy \notin {RetryStrategyTillRetryCount,
                                              RetryStrategyFirstSuccess,
                                              RetryStrategyFirstFailure}
        THEN [run |-> nextTest, jobs |-> js, err |-> "none"]
        ELSE IF ~(jobNo < testType.RetryCount) \/ run.skipTest
        THEN [run |-> nextTest, jobs |-> js, err |-> "none"]
        ELSE IF jobNo < Len(list) /\ state = releaseVerificationStateSucceeded
        THEN [run |-> [run EXCEPT !.jobNo = @ + 1,
                                  !.skipTest = (testType.RetryStrategy = RetryStrategyFirstSuccess)],
              jobs |-> js, err |-> "none"]
        ELSE IF jobNo < Len(list) /\ state = releaseVerificationStateFailed
        THEN [run |-> [run EXCEPT !.jobNo = @ + 1,
                                  !.skipTest = (testType.RetryStrategy = RetryStrategyFirstFailure)],
              jobs |-> js, err |-> "none"]
        ELSE IF jobNo < Len(list) /\ state # releaseVerificationStatePending
        THEN [run |-> [run EXCEPT !.skipTest = TRUE], jobs |-> js, err |-> "none"]
        ELSE IF res.err # "none"
        THEN [run |-> ensured, jobs |-> res.jobs, err |-> res.err]
        ELSE [run |-> [ensured EXCEPT !.status = (name :> stored) @@ @,
                                      !.jobNo = @ + 1],
              jobs |-> res.jobs, err |-> "none"]

\* one iteration of the loop over jobNo for the test at the head of
\* run.order, or the step to the next test of the range
additionalStep(config, run, js, behind, fault, t) ==
    LET name == Head(run.order)
        testType == config[name]
        list == attemptsOf(run.status, name)
        jobNo == run.jobNo
        state == list[jobNo + 1].State
        nextTest == [run EXCEPT !.order = Tail(@), !.jobNo = 0, !.skipTest = FALSE]
        res == ensureProwJobForReleaseTag(js, ListerCache(js, behind),
                                          name \o "-" \o ToString(jobNo), testType,
                                          IF name \in fault THEN "error" ELSE "none", t)
        status == prowJobVerificationStatus(res.out)
        stored == IF Len(list) <= jobNo
                  THEN Append(list, status)
                  ELSE [list EXCEPT ![jobNo + 1] = status]
        ensured == [run EXCEPT !.ensured = @ \cup {<<name, jobNo>>},
                               !.repeated = IF <<name, jobNo>> \in run.ensured
                                            THEN @ \cup {<<name, jobNo>>}
                                            ELSE @]
    IN  IF testType.Disabled \/ testType.ProwJob = NoProwJob
        THEN [run |-> nextTest, jobs |-> js, err |-> "none"]
        ELSE IF testType.RetryStrategy \notin {RetryStrategyTillRetryCount,
                                              RetryStrategyFirstSuccess,
                                              RetryStrategyFirstFailure}
        THEN [run |-> nextTest, jobs |-> js, err |-> "none"]
        ELSE IF ~(jobNo < testType.RetryCount) \/ run.skipTest
        THEN [run |-> nextTest, jobs |-> js, err |-> "none"]
        ELSE IF jobNo < Len(list) /\ state = releaseVerificationStateSucceeded
        THEN [run |-> [run EXCEPT !.jobNo = @ + 1,
                                  !.skipTest = (testType.RetryStrategy = RetryStrategyFirstSuccess)],
              jobs |-> js, err |-> "none"]
        ELSE IF jobNo < Len(list) /\ state = releaseVerificationStateFailed
        THEN [run |-> [run EXCEPT !.jobNo = @ + 1,
                                  !.skipTest = (testType.RetryStrategy = RetryStrategyFirstFailure)],
              jobs |-> js, err |-> "none"]
        ELSE IF jobNo < Len(list) /\ state # releaseVerificationStatePending
        THEN [run |-> [run EXCEPT !.skipTest = TRUE], jobs |-> js, err |-> "none"]
        ELSE IF res.err # "none"
        THEN [run |-> ensured, jobs |-> res.jobs, err |-> res.err]
        ELSE [run |-> [ensured EXCEPT !.status = (name :> stored) @@ @],
              jobs |-> res.jobs, err |-> "none"]

\* ------------------------------------------------------------------------
\* Specification of the multi-attempt orchestrators: one tag with a fixed
\* config of candidate tests or of additional tests, whose annotation holds
\* the attempts recorded so far, reconciled again and again while its jobs
\* finish.
\* ------------------------------------------------------------------------
Families == {"candidate", "additional"}

\* the strategies a config can name for each orchestrator: the candidate
\* tests tell FirstSuccess from every other value
RetryStrategies(family) ==
    IF family = "candidate"
    THEN {RetryStrategyTillMaxRetries, RetryStrategyFirstSuccess,
          RetryStrategyFirstFailure, NoRetryStrategy}
    ELSE {RetryStrategyTillRetryCount, RetryStrategyFirstSuccess,
          RetryStrategyFirstFailure}

\* the test under study: a job with retries under any strategy
PrimaryTests(family) ==
    {Test(FALSE, FALSE, "e2e", strategy, m, m + 1) :
        strategy \in RetryStrategies(family), m \in {1, MaxMaxRetries}}

\* the other test of the config: disabled, or for the candidate tests an
\* upgrade job without retry, from the previous tag or from the rally point
OtherTests(family) ==
    {Test(TRUE, FALSE, "e2e", RetryStrategyFirstSuccess, 0, 1)} \cup
    IF family = "candidate"
    THEN {Test(FALSE, TRUE, "e2e", RetryStrategyFirstSuccess, 0, 1),
          [Test(FALSE, TRUE, "e2e", RetryStrategyFirstSuccess, 0, 1)
              EXCEPT !.UpgradeFrom = releaseUpgradeFromRallyPoint]}
    ELSE {}

\* the stable releases of the cluster: none, one whose line has a single
\* accepted tag, one whose line has two
StableChoices ==
    {NoStableReleases,
     <<{Version(4, 5, 2)}>>,
     <<{Version(4, 5, 1), Version(4, 5, 2)}>>}

TestConfigs(family) ==
    {[s \in Slots |-> IF s = "aws" THEN k1 ELSE k2] :
        k1 \in PrimaryTests(family), k2 \in OtherTests(family)}

\* the name of the job of attempt jobNo of a test
testJobName(family, name, jobNo) ==
    IF family = "candidate"
    THEN verifyJobName(name, jobNo)
    ELSE name \o "-" \o ToString(jobNo)

\* the recorded attempts a tag can carry for a test: at most maxLen of
\* them, each but the last one finished; the last one may have a state
\* that the orchestrators do not recognize
AttemptLists(family, maxLen) ==
    LET finished == {releaseVerificationStateSucceeded, releaseVerificationStateFailed}
        states == finished \cup {releaseVerificationStatePending, UnrecognizedState}
        sequential(f) ==
            \A i \in DOMAIN f : i < Len(f) => f[i] \in finished
        attempt(state, i) ==
            [State |-> state,
             Retries |-> IF family = "candidate" THEN i - 1 ELSE 0,
             TransitionTime |-> IF state \in finished THEN 0 ELSE NilTime]
    IN  UNION {{[i \in 1..n |-> attempt(f[i], i)] :
                    f \in {g \in [1..n -> states] : sequential(g)}} :
                  n \in 1..maxLen}

\* the job behind a recorded attempt
JobOfAttempt(attempt) ==
    [State |-> CASE attempt.State = releaseVerificationStateSucceeded -> "success"
                 [] attempt.State = releaseVerificationStateFailed -> "failure"
                 [] OTHER -> "triggered",
     CompletionTime |-> attempt.TransitionTime]

JobsOfAttempts(family, name, list) ==
    LET jobName(i) == prowJobName(TagName, testJobName(family, name, i - 1))
    IN  [n \in {jobName(i) : i \in DOMAIN list} |->
            JobOfAttempt(list[CHOOSE i \in DOMAIN list : jobName(i) = n])]

\* the candidate tests of the config under reconcile, upgrade tests fanned
\* out over their sources
candidateTests ==
    expandCandidateTests([tests |-> EmptyMap, names |-> <<>>, err |-> FALSE],
                         CHOOSE order \in Orders(DOMAIN testConfig) : TRUE,
                         testConfig).tests

\* the orders in which the ranges of a reconcile can yield the names: any
\* order of the names of the config, the names fanned out of an upgrade
\* test before or after them in any order
RangeOrders ==
    LET fanned == DOMAIN candidateTests \ DOMAIN testConfig
    IN  UNION {{o \o f, f \o o} : o \in Orders(DOMAIN testConfig), f \in Orders(fanned)}

InitTests ==
    /\ EvalIdle
    /\ NamesIdle
    /\ ResolveIdle
    /\ ProwEnvIdle
    /\ UpgradeJobsIdle
    /\ BackoffIdle
    /\ VerifyIdle
    /\ EnsureIdle
    /\ now = 0
    /\ testFamily \in Families
    /\ testConfig \in TestConfigs(testFamily)
    /\ accepted \in {<<>>, <<"4.5.2">>}
    /\ (accepted # <<>>) => /\ testFamily = "candidate"
                            /\ \E s \in Slots : testConfig[s].Upgrade
    /\ stable \in StableChoices
    /\ (stable # NoStableReleases) =>
           /\ accepted = <<>>
           /\ \E s \in Slots : testConfig[s].UpgradeFrom = releaseUpgradeFromRallyPoint
           /\ testConfig["aws"].RetryStrategy = RetryStrategyFirstSuccess
           /\ testConfig["aws"].MaxRetries = 1
    /\ \E list \in {<<>>} \cup AttemptLists(testFamily, testConfig["aws"].MaxRetries + 1) :
           /\ testAnnotation \in
                  {EncodeStatus(IF list = <<>> THEN EmptyMap ELSE ("aws" :> list))}
                  \cup (IF list = <<>> /\ testFamily = "candidate"
                        THEN {CorruptAnnotation} ELSE {})
           /\ jobs = JobsOfAttempts(testFamily, "aws", list)
    /\ tsLast = NoTestCall
    /\ tsRun = NoRun

\* one reconcile of the candidate tests: ensureCandidateTests, then the
\* write of the returned lists to the annotation when it returned no error;
\* a panic ends the reconcile with nothing written
CandidateSync ==
    /\ testFamily = "candidate"
    /\ \E order \in RangeOrders, behind \in Lags(jobs), fault \in Faults :
        \E r \in {ensureCandidateTests(testConfig, testAnnotation, jobs,
                                       order, behind, fault, now)} :
            /\ jobs' = r.jobs
            /\ testAnnotation' = IF r.err = "none"
                                 THEN EncodeStatus(r.status)
                                 ELSE testAnnotation
            /\ tsLast' = [called |-> TRUE, err |-> r.err, addAfter |-> r.addAfter,
                          ensured |-> r.ensured]
            /\ UNCHANGED <<now, accepted, stable, testFamily, testConfig, tsRun>>

\* ensureAdditionalTests is called: it reads the annotation and starts its
\* range over the tests (the tag carries no keep annotation, so upgradeJobs
\* adds no test to those of the config)
AdditionalStart ==
    /\ testFamily = "additional"
    /\ tsRun.pc = "idle"
    /\ \E order \in Orders(DOMAIN testConfig) :
           tsRun' = [pc |-> "loop", status |-> DecodeStatus(testAnnotation),
                     order |-> order, jobNo |-> 0, skipTest |-> FALSE, ensured |-> {},
                     repeated |-> {}]
    /\ UNCHANGED <<now, jobs, accepted, stable, testFamily, testConfig, testAnnotation, tsLast>>

\* one iteration of its loops; an error of the job facade ends the call
AdditionalStep ==
    /\ tsRun.pc = "loop"
    /\ tsRun.order # <<>>
    /\ \E behind \in Lags(jobs), fault \in Faults :
        \E r \in {additionalStep(testConfig, tsRun, jobs, behind, fault, now)} :
            /\ jobs' = r.jobs
            /\ tsRun' = IF r.err = "none" THEN r.run ELSE NoRun
            /\ tsLast' = IF r.err = "none"
                         THEN tsLast
                         ELSE [called |-> TRUE, err |-> r.err, addAfter |-> <<>>,
                               ensured |-> r.run.ensured]
            /\ UNCHANGED <<now, accepted, stable, testFamily, testConfig, testAnnotation>>

\* ensureAdditionalTests returns and the lists are written to the annotation
AdditionalReturn ==
    /\ tsRun.pc = "loop"
    /\ tsRun.order = <<>>
    /\ testAnnotation' = EncodeStatus(tsRun.status)
    /\ tsLast' = [called |-> TRUE, err |-> "none", addAfter |-> <<>>,
                  ensured |-> tsRun.ensured]
    /\ tsRun' = NoRun
    /\ UNCHANGED <<now, jobs, accepted, stable, testFamily, testConfig>>

NextTests ==
    \/ JobFinish /\ UNCHANGED <<bkVars, vfVars, enVars, tsVars, evVars, nmVars, rsVars, pjVars, ujVars>>
    \/ CandidateSync /\ UNCHANGED <<bkVars, vfVars, enVars, evVars, nmVars, rsVars, pjVars, ujVars>>
    \/ AdditionalStart /\ UNCHANGED <<bkVars, vfVars, enVars, evVars, nmVars, rsVars, pjVars, ujVars>>
    \/ AdditionalStep /\ UNCHANGED <<bkVars, vfVars, enVars, evVars, nmVars, rsVars, pjVars, ujVars>>
    \/ AdditionalReturn /\ UNCHANGED <<bkVars, vfVars, enVars, evVars, nmVars, rsVars, pjVars, ujVars>>

SpecTests == InitTests /\ [][NextTests]_vars

\* ------------------------------------------------------------------------
\* Claims about the multi-attempt orchestrators
\* ------------------------------------------------------------------------
testStatus == DecodeStatus(testAnnotation)

Terminal(attempt) ==
    attempt.State \in {releaseVerificationStateSucceeded, releaseVerificationStateFailed}

\* C3: the persisted attempt list of a candidate test never has more than
\* maxRetries + 1 entries, and no attempt beyond maxRetries is ensured.
C3_AttemptsBounded ==
    testFamily = "candidate" =>
        /\ \A name \in DOMAIN testStatus \cap DOMAIN candidateTests :
               Len(testStatus[name]) <= candidateTests[name].MaxRetries + 1
        /\ \A e \in tsLast.ensured :
               /\ e[1] \in DOMAIN candidateTests
               /\ e[2] <= candidateTests[e[1]].MaxRetries

\* the last attempt a candidate test may have was ensured by the reconcile
\* that wrote the list, and it has finished
C3_Witness ==
    /\ testFamily = "candidate"
    /\ tsLast.called
    /\ tsLast.err = "none"
    /\ "aws" \in DOMAIN testStatus
    /\ testConfig["aws"].MaxRetries = MaxMaxRetries
    /\ <<"aws", MaxMaxRetries>> \in tsLast.ensured
    /\ Len(testStatus["aws"]) = MaxMaxRetries + 1
    /\ Terminal(testStatus["aws"][MaxMaxRetries + 1])

\* lists after keeps every list of before at least as long, its finished
\* attempts as they were
KeepsAttempts(before, after) ==
    \A name \in DOMAIN before :
        /\ name \in DOMAIN after
        /\ Len(after[name]) >= Len(before[name])
        /\ \A i \in DOMAIN before[name] :
               Terminal(before[name][i]) => after[name][i] = before[name][i]

\* C4: no step shortens a persisted attempt list or changes a persisted
\* attempt that is Succeeded or Failed; nor does a step of
\* ensureAdditionalTests do so to the lists it holds.
C4_TerminalAttemptsKept ==
    [][/\ KeepsAttempts(testStatus, DecodeStatus(testAnnotation'))
       /\ (tsRun.pc = "loop" /\ tsRun'.pc = "loop")
              => KeepsAttempts(tsRun.status, tsRun'.status)]_vars

\* a reconcile of the additional tests passed over the finished first
\* attempt, ensured the second one and wrote its result after the first
C4_Witness ==
    /\ testFamily = "additional"
    /\ tsLast.called
    /\ tsLast.err = "none"
    /\ "aws" \in DOMAIN testStatus
    /\ <<"aws", 0>> \notin tsLast.ensured
    /\ <<"aws", 1>> \in tsLast.ensured
    /\ Len(testStatus["aws"]) >= 2
    /\ Terminal(testStatus["aws"][1])
    /\ Terminal(testStatus["aws"][2])

\* a test under FirstSuccess with a persisted attempt that is Succeeded
HeldBySuccess(name) ==
    /\ name \in DOMAIN testStatus
    /\ name \in DOMAIN testConfig
    /\ testConfig[name].RetryStrategy = RetryStrategyFirstSuccess
    /\ \E i \in DOMAIN testStatus[name] :
           testStatus[name][i].State = releaseVerificationStateSucceeded

\* C5: under FirstSuccess, once a persisted attempt of a test is Succeeded,
\* a reconcile ensures no job for that test and leaves its list as it is,
\* whatever the order of the range, the lag of the lister and the answers
\* of the API server.
C5_FirstSuccessStops ==
    \A name \in Slots : HeldBySuccess(name) =>
        /\ testFamily = "candidate" =>
               \A order \in Orders(DOMAIN testConfig), behind \in Lags(jobs),
                  fault \in Faults :
                   LET r == ensureCandidateTests(testConfig, testAnnotation, jobs,
                                                 order, behind, fault, now)
                   IN  /\ \A e \in r.ensured : e[1] # name
                       /\ r.err = "none" => r.status[name] = testStatus[name]
        /\ tsRun.pc = "loop" =>
               /\ \A e \in tsRun.ensured : e[1] # name
               /\ tsRun.status[name] = testStatus[name]

\* the example of the claim: attempts Failed, Succeeded under FirstSuccess
\* with a third attempt allowed, after a reconcile that ensured nothing
C5_Witness ==
    /\ testFamily = "candidate"
    /\ tsLast.called
    /\ tsLast.err = "none"
    /\ HeldBySuccess("aws")
    /\ testConfig["aws"].MaxRetries >= 2
    /\ Len(testStatus["aws"]) = 2
    /\ testStatus["aws"][1].State = releaseVerificationStateFailed
    /\ testStatus["aws"][2].State = releaseVerificationStateSucceeded
    /\ \A e \in tsLast.ensured : e[1] # "aws"

\* ------------------------------------------------------------------------
\* Specification of the job facade under concurrent reconciles: workers
\* call ensureProwJobForReleaseTag for the same tag while the informer
\* refreshes the lister and jobs finish.  A call takes two steps, the lookup
\* in the lister and ensureProwJob.
\* ------------------------------------------------------------------------
Workers == 1..NumWorkers

\* the verification names the workers ensure jobs for
EnsureNames == {"aws", "aws-1"}

EnsureType == Verification(FALSE, FALSE, FALSE, "e2e", 1)

InitEnsure ==
    /\ EvalIdle
    /\ NamesIdle
    /\ ResolveIdle
    /\ ProwEnvIdle
    /\ UpgradeJobsIdle
    /\ BackoffIdle
    /\ VerifyIdle
    /\ TestsIdle
    /\ now = 0
    /\ jobs = EmptyMap
    /\ accepted = <<>>
    /\ stable = NoStableReleases
    /\ lister = EmptyMap
    /\ call = [w \in Workers |-> IdleCall]
    /\ created = [n \in {prowJobName(TagName, v) : v \in EnsureNames} |-> 0]

\* lines 23-38 of ensureProwJobForReleaseTag: the job found in the lister is
\* returned; otherwise the job is built
EnsureLookup(w) ==
    \E verifyName \in EnsureNames :
        LET cached == ListerGetByKey(lister, prowJobName(TagName, verifyName))
            pj == prowJobToCreate(EnsureType, now)
        IN  /\ call[w].pc \in {"idle", "done"}
            /\ call' = [call EXCEPT ![w] =
                   IF cached.exists
                   THEN [pc |-> "done", verifyName |-> verifyName,
                         out |-> cached.obj, err |-> "none", path |-> "listed"]
                   ELSE IF pj.err # "create"
                   THEN [pc |-> "done", verifyName |-> verifyName,
                         out |-> pj.out, err |-> pj.err, path |-> "built"]
                   ELSE [pc |-> "create", verifyName |-> verifyName,
                         out |-> NoJob, err |-> "none", path |-> ""]]
            /\ UNCHANGED <<jobs, lister, created>>

\* line 101 of ensureProwJobForReleaseTag: ensureProwJob
EnsureCreate(w) ==
    \E fault \in {"none", "error", "invalid"} :
        LET name == prowJobName(TagName, call[w].verifyName)
            res == ensureProwJob(jobs, lister, name, fault)
        IN  /\ call[w].pc = "create"
            /\ jobs' = res.jobs
            /\ created' = IF name \in DOMAIN jobs
                          THEN created
                          ELSE [created EXCEPT ![name] =
                                   IF name \in DOMAIN res.jobs THEN @ + 1 ELSE @]
            /\ call' = [call EXCEPT ![w] =
                   [pc |-> "done", verifyName |-> @.verifyName,
                    out |-> res.out, err |-> res.err,
                    path |-> IF name \in DOMAIN jobs THEN "exists" ELSE "created"]]
            /\ UNCHANGED lister

\* the informer delivers the current state of a job to the lister
InformerSync ==
    \E name \in DOMAIN jobs :
        /\ IF name \in DOMAIN lister THEN lister[name] # jobs[name] ELSE TRUE
        /\ lister' = (name :> jobs[name]) @@ lister
        /\ UNCHANGED <<jobs, call, created>>

NextEnsure ==
    \/ \E w \in Workers : EnsureLookup(w) /\ UNCHANGED <<bkVars, vfVars, tsVars, now, accepted, stable, evVars, nmVars, rsVars, pjVars, ujVars>>
    \/ \E w \in Workers : EnsureCreate(w) /\ UNCHANGED <<bkVars, vfVars, tsVars, now, accepted, stable, evVars, nmVars, rsVars, pjVars, ujVars>>
    \/ InformerSync /\ UNCHANGED <<bkVars, vfVars, tsVars, now, accepted, stable, evVars, nmVars, rsVars, pjVars, ujVars>>
    \/ JobFinish /\ UNCHANGED <<bkVars, vfVars, enVars, tsVars, evVars, nmVars, rsVars, pjVars, ujVars>>

SpecEnsure == InitEnsure /\ [][NextEnsure]_vars

\* ------------------------------------------------------------------------
\* Claims about the job facade
\* ------------------------------------------------------------------------
\* C1: whatever the interleaving and the lag of the lister, at most one job
\* is created under a name, and an ensure that finds the name taken returns
\* the status of the existing job, as the cluster or the lister holds it.
C1_OneJobPerName ==
    /\ [](\A name \in DOMAIN created : created[name] <= 1)
    /\ [][\A w \in Workers :
            LET name == prowJobName(TagName, call[w].verifyName)
            IN  (/\ call[w].pc = "create"
                 /\ call'[w].pc = "done"
                 /\ name \in DOMAIN jobs)
                    => /\ jobs' = jobs
                       /\ call'[w].err = "none"
                       /\ \/ call'[w].out = jobs[name]
                          \/ /\ name \in DOMAIN lister
                             /\ call'[w].out = lister[name]]_vars

\* two workers ensured the same name while a finished job was not in the
\* lister yet: one created the job, the other was answered AlreadyExists
C1_Witness ==
    \E w1, w2 \in Workers :
        /\ call[w1].pc = "done" /\ call[w1].path = "created"
        /\ call[w2].pc = "done" /\ call[w2].path = "exists"
        /\ call[w1].verifyName = call[w2].verifyName
        /\ call[w2].out.State = "failure"
        /\ created[prowJobName(TagName, call[w1].verifyName)] = 1


\* ------------------------------------------------------------------------
\* Claims about one reconcile of the Verify orchestrator
\* ------------------------------------------------------------------------
\* the reconcile of the present tag with the slots taken in this order
reconcileIn(order, behind, fault) ==
    ensureVerificationJobs(verifyConfig, verifyAnnotation, jobs, order, behind, fault, now)

\* C11 as stated: any two orders of the slots give the same status map and
\* the same re-enqueue delay, the persisted status and the answers of the
\* job facade being the same.
C11_OrderFreeAsClaimed ==
    \A behind \in Lags(jobs), fault \in Faults :
        \A o1, o2 \in Orders(DOMAIN verifyConfig) :
            /\ reconcileIn(o1, behind, fault).status = reconcileIn(o2, behind, fault).status
            /\ reconcileIn(o1, behind, fault).addAfter = reconcileIn(o2, behind, fault).addAfter

\* after a reconcile, the jobs of both slots have failed and one order of
\* the slots asks for a delayed re-enqueue while the other asks for none
C11_Witness ==
    /\ vfLast.called
    /\ \A s \in Slots : s \in DOMAIN verifyStatus
    /\ \E o1, o2 \in Orders(DOMAIN verifyConfig) :
           /\ reconcileIn(o1, {}, {}).err = "none"
           /\ reconcileIn(o1, {}, {}).status = reconcileIn(o2, {}, {}).status
           /\ reconcileIn(o1, {}, {}).addAfter # <<>>
           /\ reconcileIn(o2, {}, {}).addAfter = <<>>

\* the reconcile of the present tag with slot name as its only slot
reconcileOnly(name, behind, fault) ==
    ensureVerificationJobs((name :> verifyConfig[name]), verifyAnnotation, jobs,
                           <<name>>, behind, fault, now)

\* C17: a slot with maxRetries = 0 gets one attempt.  Only its attempt 0 is
\* ever ensured; no reconcile computes a backoff or asks for a re-enqueue
\* on its account; once it is persisted as Failed a reconcile of it ensures
\* nothing and creates no job.
C17_OneAttemptAtZero ==
    \A name \in DOMAIN verifyConfig : verifyConfig[name].MaxRetries = 0 =>
        /\ \A e \in vfEnsured : e[1] = name => e[2] = 0
        /\ \A behind \in Lags(jobs), fault \in Faults :
               /\ reconcileOnly(name, behind, fault).computed = <<>>
               /\ reconcileOnly(name, behind, fault).addAfter = <<>>
               /\ (/\ name \in DOMAIN verifyStatus
                   /\ verifyStatus[name].State = releaseVerificationStateFailed)
                      => /\ reconcileOnly(name, behind, fault).ensured = {}
                         /\ reconcileOnly(name, behind, fault).jobs = jobs

\* the single job of a slot without retry has failed, the failure is
\* persisted, and a later reconcile has passed the slot over
C17_Witness ==
    /\ verifyConfig["aws"].MaxRetries = 0
    /\ "aws" \in DOMAIN verifyStatus
    /\ verifyStatus["aws"].State = releaseVerificationStateFailed
    /\ vfLast.called
    /\ vfLast.err = "none"
    /\ \A e \in vfLast.ensured : e[1] # "aws"
    /\ prowJobName(TagName, "aws") \in DOMAIN jobs
    /\ prowJobName(TagName, "aws-1") \notin DOMAIN jobs

\* ------------------------------------------------------------------------
\* Completeness evaluators of the Verify status map (http_candidate.go)
\* ------------------------------------------------------------------------
\* VerificationStatusMap.Failures: the names and len(names) > 0
VerificationStatusMap_Failures(m) ==
    LET names == {name \in DOMAIN m : m[name].State = releaseVerificationStateFailed}
    IN  [names |-> names, ok |-> names # {}]

\* VerificationStatusMap.Incomplete
VerificationStatusMap_Incomplete(m, required) ==
    LET names == {name \in DOMAIN required :
                     /\ ~required[name].Disabled
                     /\ IF name \in DOMAIN m
                        THEN m[name].State \notin {releaseVerificationStateSucceeded,
                                                   releaseVerificationStateFailed}
                        ELSE TRUE}
    IN  [names |-> names, ok |-> names # {}]

\* ------------------------------------------------------------------------
\* Specification of the evaluators of the Verify status map: one call of
\* each on a config and a status map drawn from bounded sets.
\* ------------------------------------------------------------------------
\* a slot is disabled or not, optional or not, without retry or with some
EvalKinds ==
    {Verification(d, o, FALSE, "e2e", m) :
        d \in BOOLEAN, o \in BOOLEAN, m \in {0, MaxMaxRetries}}

EvalConfigs == [Slots -> EvalKinds]

\* the VerificationStatus values a status map can hold
EvalStatuses ==
    [State : {releaseVerificationStateSucceeded, releaseVerificationStateFailed,
              releaseVerificationStatePending},
     Retries : 0..MaxMaxRetries,
     TransitionTime : {NilTime}]

EvalStatusMaps ==
    UNION {[names -> EvalStatuses] : names \in SUBSET Slots}

InitEvalVerify ==
    /\ BackoffIdle
    /\ VerifyIdle
    /\ EnsureIdle
    /\ TestsIdle
    /\ NamesIdle
    /\ ResolveIdle
    /\ ProwEnvIdle
    /\ UpgradeJobsIdle
    /\ now = 0
    /\ jobs = EmptyMap
    /\ accepted = <<>>
    /\ stable = NoStableReleases
    /\ evConfig \in EvalConfigs
    /\ evStatus \in EvalStatusMaps
    /\ evOut = NoEval

\* the phase decider asks the three evaluators about the tag
EvalVerify ==
    /\ ~evOut.called
    /\ \E r \in {verificationJobsWithRetries(evConfig, evStatus)} :
           evOut' = [called |-> TRUE,
                     failures |-> VerificationStatusMap_Failures(evStatus).names,
                     incomplete |-> VerificationStatusMap_Incomplete(evStatus, evConfig).names,
                     retry |-> r.names,
                     blocking |-> r.blockingJobFailure,
                     state |-> ""]
    /\ UNCHANGED <<evConfig, evStatus>>
    /\ UNCHANGED <<bkVars, envVars, vfVars, enVars, tsVars, nmVars, rsVars, pjVars, ujVars>>

NextEvalVerify == EvalVerify

SpecEvalVerify == InitEvalVerify /\ [][NextEvalVerify]_vars

\* C12: the evaluator reports a blocking failure exactly when some enabled,
\* non-optional slot is persisted as Failed with retries >= maxRetries;
\* disabled or optional slots and Failed slots with retries left never do.
C12_BlockingIffExhausted ==
    evOut.called =>
        (evOut.blocking <=>
            \E name \in DOMAIN evConfig :
                /\ ~evConfig[name].Disabled
                /\ ~evConfig[name].Optional
                /\ name \in DOMAIN evStatus
                /\ evStatus[name].State = releaseVerificationStateFailed
                /\ evStatus[name].Retries >= evConfig[name].MaxRetries)

\* a blocking failure reported next to an optional slot that has also
\* exhausted its retries
C12_Witness ==
    /\ evOut.called
    /\ evOut.blocking
    /\ evConfig["gcp"].Optional /\ ~evConfig["gcp"].Disabled
    /\ "gcp" \in DOMAIN evStatus
    /\ evStatus["gcp"].State = releaseVerificationStateFailed
    /\ evStatus["gcp"].Retries >= evConfig["gcp"].MaxRetries
    /\ ~evConfig["aws"].Optional /\ evConfig["aws"].MaxRetries = MaxMaxRetries

\* C13 as stated: Failures reports exactly the slots that are Failed with
\* retries >= maxRetries, and no Failed slot that has retries left.
C13_FailuresAsClaimed ==
    evOut.called =>
        evOut.failures =
            {name \in DOMAIN evStatus :
                /\ evStatus[name].State = releaseVerificationStateFailed
                /\ evStatus[name].Retries >= evConfig[name].MaxRetries}

\* Failures has reported a Failed slot that has retries left
C13_Witness ==
    /\ evOut.called
    /\ \E name \in evOut.failures :
           /\ ~evConfig[name].Disabled
           /\ evStatus[name].Retries < evConfig[name].MaxRetries


\* ------------------------------------------------------------------------
\* Completeness evaluator of the attempt lists (http_candidate.go)
\* ------------------------------------------------------------------------
\* the tags on which semver.ParseTolerant succeeds
SemverTags == {"4.5.1", "4.5.2"}

\* the loop over result.Status with every attempt counted, a Pending one too
RECURSIVE completedAttempts_countsPending(_, _, _, _)
completedAttempts_countsPending(list, retryStrategy, maxRetries, completed) ==
    IF list = <<>>
    THEN completed
    ELSE IF /\ Head(list).State = releaseVerificationStateSucceeded
            /\ retryStrategy = RetryStrategyFirstSuccess
    THEN maxRetries + 1
    ELSE completedAttempts_countsPending(Tail(list), retryStrategy, maxRetries,
                                         completed + 1)

\* the loop over result.Status: completed after the attempts of list
RECURSIVE completedAttempts(_, _, _, _)
completedAttempts(list, retryStrategy, maxRetries, completed) ==
    IF list = <<>>
    THEN completed
    ELSE IF Head(list).State \notin {releaseVerificationStateSucceeded,
                                     releaseVerificationStateFailed}
    THEN completedAttempts(Tail(list), retryStrategy, maxRetries, completed)
    ELSE IF /\ Head(list).State = releaseVerificationStateSucceeded
            /\ retryStrategy = RetryStrategyFirstSuccess
    THEN maxRetries + 1
    ELSE completedAttempts(Tail(list), retryStrategy, maxRetries, completed + 1)

\* VerificationStatusList.Incomplete: the names of the tests of required
\* that are not complete.  A name without an entry in m is reported at once;
\* the results of a test are then its own entry, and the entries named
\* <name>-<semver> are looked at only where m has no entry for the name.
VerificationStatusList_Incomplete(m, required) ==
    LET fanOut(name) ==
            {testName \in DOMAIN m : \E v \in SemverTags : testName = name \o "-" \o v}
        testResults(name) ==
            IF name \in DOMAIN m
            THEN {m[name]}
            ELSE IF /\ required[name].Upgrade
                    /\ required[name].UpgradeFrom = releaseUpgradeFromRallyPoint
            THEN {m[testName] : testName \in fanOut(name)}
            ELSE {}
        retryStrategy(name) ==
            IF required[name].RetryStrategy = NoRetryStrategy
            THEN DefaultRetryStrategy
            ELSE required[name].RetryStrategy
        unfinished(name) ==
            \E result \in testResults(name) :
                completedAttempts(result, retryStrategy(name),
                                  required[name].MaxRetries, 0)
                    < required[name].MaxRetries + 1
    IN  {name \in DOMAIN required :
            /\ ~required[name].Disabled
            /\ IF name \notin DOMAIN m THEN TRUE ELSE unfinished(name)}

\* the loop of ReleaseCandidateTest.state over the attempts: the state it
\* returns from within the loop, or the count of Succeeded attempts
RECURSIVE stateOfAttempts(_, _, _)
stateOfAttempts(t, status, success) ==
    IF status = <<>>
    THEN [returned |-> "", success |-> success]
    ELSE IF Head(status).State = releaseVerificationStatePending
    THEN [returned |-> Head(status).State, success |-> success]
    ELSE IF Head(status).State = releaseVerificationStateSucceeded
    THEN IF t.RetryStrategy = RetryStrategyFirstSuccess
         THEN [returned |-> Head(status).State, success |-> success]
         ELSE stateOfAttempts(t, Tail(status), success + 1)
    ELSE stateOfAttempts(t, Tail(status), success)

\* ReleaseCandidateTest.state(status...): the state of a test with these
\* attempts
ReleaseCandidateTest_state(t, status) ==
    IF t.RetryStrategy = RetryStrategyTillMaxRetries /\ Len(status) < t.MaxRetries + 1
    THEN releaseVerificationStatePending
    ELSE LET scan == stateOfAttempts(t, status, 0)
         IN  IF scan.returned # ""
             THEN scan.returned
             ELSE IF scan.success >= Len(status) \div 2
             THEN releaseVerificationStateSucceeded
             ELSE releaseVerificationStateFailed

\* ------------------------------------------------------------------------
\* Specification of the evaluator of the attempt lists: one call on a
\* config of two tests and on attempt lists drawn from bounded sets.  Test
\* aws is a plain job, test gcp an upgrade job from the rally point whose
\* lists may be kept under gcp or under gcp-<tag> for the tags it was
\* fanned out to.
\* ------------------------------------------------------------------------
EvalStrategies ==
    {NoRetryStrategy, RetryStrategyFirstSuccess, RetryStrategyTillMaxRetries}

EvalPlainTests ==
    {Test(d, FALSE, "e2e", s, m, m + 1) :
        d \in BOOLEAN, s \in EvalStrategies, m \in {0, MaxMaxRetries}}

EvalRallyTest ==
    [Test(FALSE, TRUE, "e2e", RetryStrategyFirstSuccess, 0, 1)
        EXCEPT !.UpgradeFrom = releaseUpgradeFromRallyPoint]

EvalTestConfigs ==
    {[s \in Slots |-> IF s = "aws" THEN k ELSE EvalRallyTest] : k \in EvalPlainTests}

\* the attempt lists of at most maxLen attempts in any states
EvalLists(maxLen) ==
    LET states == {releaseVerificationStateSucceeded, releaseVerificationStateFailed,
                   releaseVerificationStatePending}
    IN  UNION {{[i \in 1..n |-> [State |-> f[i], Retries |-> i - 1,
                                 TransitionTime |-> NilTime]] :
                    f \in [1..n -> states]} : n \in 0..maxLen}

FanOutNames == {"gcp-" \o v : v \in SemverTags}

EvalListMaps ==
    {plain @@ rally :
        plain \in UNION {[names -> EvalLists(MaxMaxRetries + 1)] : names \in SUBSET {"aws"}},
        rally \in UNION {[names -> EvalLists(1) \ {<<>>}] :
                            names \in SUBSET ({"gcp"} \cup FanOutNames)}}

InitEvalTests ==
    /\ BackoffIdle
    /\ VerifyIdle
    /\ EnsureIdle
    /\ TestsIdle
    /\ NamesIdle
    /\ ResolveIdle
    /\ ProwEnvIdle
    /\ UpgradeJobsIdle
    /\ now = 0
    /\ jobs = EmptyMap
    /\ accepted = <<>>
    /\ stable = NoStableReleases
    /\ evConfig \in EvalTestConfigs
    /\ evStatus \in EvalListMaps
    /\ evOut = NoEval

\* the phase decider asks which candidate tests are incomplete, and the
\* state of test aws is summed up for display
EvalTests ==
    /\ ~evOut.called
    /\ evOut' = [NoEval EXCEPT !.called = TRUE,
                               !.incomplete =
                                   VerificationStatusList_Incomplete(evStatus, evConfig),
                               !.state =
                                   ReleaseCandidateTest_state(evConfig["aws"],
                                                              attemptsOf(evStatus, "aws"))]
    /\ UNCHANGED <<evConfig, evStatus>>
    /\ UNCHANGED <<bkVars, envVars, vfVars, enVars, tsVars, nmVars, rsVars, pjVars, ujVars>>

NextEvalTests == EvalTests

SpecEvalTests == InitEvalTests /\ [][NextEvalTests]_vars

\* the strategy a test runs under: the default where its config names none
effectiveStrategy(test) ==
    IF test.RetryStrategy = NoRetryStrategy THEN DefaultRetryStrategy
    ELSE test.RetryStrategy

\* the number of Succeeded or Failed attempts of a list
terminalCount(list) ==
    Cardinality({i \in DOMAIN list :
                    list[i].State \in {releaseVerificationStateSucceeded,
                                       releaseVerificationStateFailed}})

\* C14: an enabled test is reported complete exactly when it has recorded
\* attempts and either runs under FirstSuccess (named or by default) with
\* an attempt Succeeded, or has at least maxRetries + 1 attempts that are
\* Succeeded or Failed; without a recorded list it is incomplete.
C14_CompleteIffDone ==
    (evOut.called /\ ~evConfig["aws"].Disabled) =>
        ("aws" \notin evOut.incomplete <=>
            /\ "aws" \in DOMAIN evStatus
            /\ \/ /\ effectiveStrategy(evConfig["aws"]) = RetryStrategyFirstSuccess
                  /\ \E i \in DOMAIN evStatus["aws"] :
                         evStatus["aws"][i].State = releaseVerificationStateSucceeded
               \/ terminalCount(evStatus["aws"]) >= evConfig["aws"].MaxRetries + 1)

\* a test under TillMaxRetries with retries, complete with every attempt
\* finished and one of them Failed
C14_Witness ==
    /\ evOut.called
    /\ ~evConfig["aws"].Disabled
    /\ evConfig["aws"].RetryStrategy = RetryStrategyTillMaxRetries
    /\ evConfig["aws"].MaxRetries = MaxMaxRetries
    /\ "aws" \in DOMAIN evStatus
    /\ \E i \in DOMAIN evStatus["aws"] :
           evStatus["aws"][i].State = releaseVerificationStateFailed
    /\ "aws" \notin evOut.incomplete

\* the lists kept for the slots a test was fanned out to
fannedLists(name) ==
    {evStatus[n] : n \in {x \in DOMAIN evStatus :
                            \E v \in SemverTags : x = name \o "-" \o v}}

\* C15 as stated: a rally point upgrade test whose lists are kept under
\* <slot>-<tag> is reported complete when the list of every such slot is
\* complete, and incomplete when one of them is not.
C15_FanOutAggregatedAsClaimed ==
    (/\ evOut.called
     /\ "gcp" \notin DOMAIN evStatus
     /\ fannedLists("gcp") # {}) =>
        ("gcp" \notin evOut.incomplete <=>
            \A list \in fannedLists("gcp") :
                \E i \in DOMAIN list : list[i].State = releaseVerificationStateSucceeded)

\* the evaluator was asked about an upgrade test from the rally point whose
\* two fanned out slots have both succeeded, and reported it incomplete
C15_Witness ==
    /\ evOut.called
    /\ "gcp" \notin DOMAIN evStatus
    /\ FanOutNames \subseteq DOMAIN evStatus
    /\ \A n \in FanOutNames : evStatus[n][1].State = releaseVerificationStateSucceeded
    /\ "gcp" \in evOut.incomplete


\* ------------------------------------------------------------------------
\* Claims about the candidate tests without a retry strategy
\* ------------------------------------------------------------------------
\* a candidate test whose config names no strategy, with a persisted
\* attempt that is Succeeded
HeldByDefault(name) ==
    /\ testFamily = "candidate"
    /\ name \in DOMAIN testStatus
    /\ name \in DOMAIN testConfig
    /\ testConfig[name].RetryStrategy = NoRetryStrategy
    /\ \E i \in DOMAIN testStatus[name] :
           testStatus[name][i].State = releaseVerificationStateSucceeded

\* C16 as stated: a candidate test without a retryStrategy is handled as
\* FirstSuccess, so once one of its attempts is Succeeded no reconcile
\* ensures a job for it.
C16_DefaultStopsAsClaimed ==
    \A name \in Slots : HeldByDefault(name) =>
        \A order \in Orders(DOMAIN testConfig), behind \in Lags(jobs), fault \in Faults :
            \A e \in ensureCandidateTests(testConfig, testAnnotation, jobs,
                                          order, behind, fault, now).ensured :
                e[1] # name

\* a reconcile of a test without a strategy whose first attempt had
\* succeeded has ensured the job of its second attempt
C16_Witness ==
    /\ HeldByDefault("aws")
    /\ testStatus["aws"][1].State = releaseVerificationStateSucceeded
    /\ tsLast.called
    /\ <<"aws", 1>> \in tsLast.ensured
    /\ prowJobName(TagName, "aws-1") \in DOMAIN jobs


\* ------------------------------------------------------------------------
\* Specification of the job naming: the names derived for two attempts of
\* one tag, over slot names that include a name ending in a number, a
\* fanned out name and a name too long for a prow job.
\* ------------------------------------------------------------------------
\* the name of the prow job of an attempt of a slot: jobName in the
\* orchestrator, prowJobName in the facade
derivedJobName(slot, attempt) == prowJobName(TagName, verifyJobName(slot, attempt))

LongSlot == "upgrade-from-previous-minor-with-a-very-long-configuration-name"

NameSlots == {"aws", "aws-1", "upgrade", "upgrade-4.5.2", LongSlot}

NameArgs == [slot : NameSlots, attempt : 0..MaxMaxRetries]

InitNames ==
    /\ BackoffIdle
    /\ VerifyIdle
    /\ EnsureIdle
    /\ TestsIdle
    /\ EvalIdle
    /\ now = 0
    /\ jobs = EmptyMap
    /\ accepted = <<>>
    /\ stable = NoStableReleases
    /\ ResolveIdle
    /\ ProwEnvIdle
    /\ UpgradeJobsIdle
    /\ nmArgs \in NameArgs \X NameArgs
    /\ nmOut = <<>>

DeriveNames ==
    /\ nmOut = <<>>
    /\ nmOut' = <<derivedJobName(nmArgs[1].slot, nmArgs[1].attempt),
                  derivedJobName(nmArgs[2].slot, nmArgs[2].attempt)>>
    /\ UNCHANGED nmArgs
    /\ UNCHANGED <<bkVars, envVars, vfVars, enVars, tsVars, evVars, rsVars, pjVars, ujVars>>

NextNames == DeriveNames

SpecNames == InitNames /\ [][NextNames]_vars

\* C18 as stated: within one tag, two different (slot, attempt) pairs
\* never derive the same job name, whatever the slot names are.
C18_NamesDistinctAsClaimed ==
    (nmOut # <<>> /\ nmArgs[1] # nmArgs[2]) => nmOut[1] # nmOut[2]

\* attempt 1 of slot aws and attempt 0 of slot aws-1 have had their job
\* names derived, and they are one name
C18_Witness ==
    /\ nmOut # <<>>
    /\ nmArgs[1] = [slot |-> "aws", attempt |-> 1]
    /\ nmArgs[2] = [slot |-> "aws-1", attempt |-> 0]
    /\ nmOut[1] = TagName \o "-aws-1"
    /\ nmOut[2] = nmOut[1]


\* ------------------------------------------------------------------------
\* Claims about an annotation that does not parse
\* ------------------------------------------------------------------------
\* the candidate tests that a reconcile is to run: enabled, with a prow job
\* that the prow config defines, and with an upgrade source where one is
\* needed
Runnable(name) ==
    /\ ~testConfig[name].Disabled
    /\ hasProwJob(testConfig[name].ProwJob)
    /\ testConfig[name].Upgrade =>
           ~getUpgradeSource(NoMode, TagVersion, accepted, stable,
                             testConfig[name].UpgradeFrom).err

\* C19 as stated: with an annotation that does not parse (and a job facade
\* that answers without error) the reconcile does not fail; it ensures
\* attempt 0 of every enabled test and returns lists that hold it.
C19_CorruptProceedsAsClaimed ==
    (/\ testFamily = "candidate"
     /\ ~testAnnotation.valid
     /\ \A name \in DOMAIN testConfig : testConfig[name].Disabled \/ Runnable(name)) =>
        \A order \in Orders(DOMAIN testConfig), behind \in Lags(jobs) :
            \E r \in {ensureCandidateTests(testConfig, testAnnotation, jobs,
                                           order, behind, {}, now)} :
                /\ r.err = "none"
                /\ \A name \in DOMAIN testConfig : Runnable(name) =>
                       /\ <<name, 0>> \in r.ensured
                       /\ name \in DOMAIN r.status
                       /\ Len(r.status[name]) = 1

\* a reconcile of the candidate tests of a tag whose annotation does not
\* parse has created the job of attempt 0 and has then ended in a panic,
\* with nothing written to the annotation
C19_Witness ==
    /\ testFamily = "candidate"
    /\ ~testAnnotation.valid
    /\ tsLast.called
    /\ tsLast.err = "panic"
    /\ <<"aws", 0>> \in tsLast.ensured
    /\ prowJobName(TagName, "aws") \in DOMAIN jobs


\* ------------------------------------------------------------------------
\* Claims about disabled slots
\* ------------------------------------------------------------------------
DisabledSlots == {name \in DOMAIN verifyConfig : verifyConfig[name].Disabled}

\* the persisted status map with the entry of name replaced by status
withStatus(name, status) ==
    [n \in DOMAIN verifyStatus \cup {name} |->
        IF n = name THEN status ELSE verifyStatus[n]]

\* the persisted status map without an entry for name
withoutStatus(name) ==
    [n \in DOMAIN verifyStatus \ {name} |-> verifyStatus[n]]

\* the evaluators of the status map leave the slot out whatever status it
\* has, and report the blocking failure they report without it
EvaluatorsIgnore(name) ==
    \A status \in EvalStatuses :
        /\ name \notin VerificationStatusMap_Incomplete(withStatus(name, status),
                                                        verifyConfig).names
        /\ name \notin VerificationStatusMap_Incomplete(withoutStatus(name),
                                                        verifyConfig).names
        /\ name \notin verificationJobsWithRetries(verifyConfig,
                                                   withStatus(name, status)).names
        /\ name \notin verificationJobsWithRetries(verifyConfig,
                                                   withoutStatus(name)).names
        /\ verificationJobsWithRetries(verifyConfig,
                                       withStatus(name, status)).blockingJobFailure
           = verificationJobsWithRetries(verifyConfig,
                                         withoutStatus(name)).blockingJobFailure

\* the evaluator of the attempt lists leaves a disabled test out whatever
\* attempts are recorded for it, or none
ListEvaluatorIgnores(name) ==
    \A strategy \in EvalStrategies :
        \E required \in {(name :> Test(TRUE, FALSE, "e2e", strategy,
                                        verifyConfig[name].MaxRetries,
                                        verifyConfig[name].MaxRetries + 1))} :
            /\ VerificationStatusList_Incomplete(EmptyMap, required) = {}
            /\ \A list \in EvalLists(verifyConfig[name].MaxRetries + 1) :
                   VerificationStatusList_Incomplete((name :> list), required) = {}

\* a step leaves the persisted status of the slot as it is
StatusKept(name) ==
    /\ (name \in DOMAIN DecodeStatus(verifyAnnotation')) = (name \in DOMAIN verifyStatus)
    /\ name \in DOMAIN verifyStatus =>
           DecodeStatus(verifyAnnotation')[name] = verifyStatus[name]

\* C20: no job of a disabled slot is ever ensured, no reconcile adds or
\* changes a status entry of it, and the completeness evaluators report it
\* neither as incomplete nor as a blocking failure, whatever status is
\* persisted for it.
C20_DisabledIgnored ==
    /\ [](\A name \in DisabledSlots :
              /\ \A e \in vfEnsured : e[1] # name
              /\ EvaluatorsIgnore(name)
              /\ ListEvaluatorIgnores(name))
    /\ [][\A name \in DisabledSlots : StatusKept(name)]_vars

\* a tag carries a Failed status with no retry left for a slot that is
\* disabled; a reconcile has ensured the other slot, has written the status
\* map with that entry as it was, and no blocking failure is reported
C20_Witness ==
    /\ "gcp" \in DisabledSlots
    /\ "gcp" \in DOMAIN verifyStatus
    /\ verifyStatus["gcp"].State = releaseVerificationStateFailed
    /\ verifyStatus["gcp"].Retries >= verifyConfig["gcp"].MaxRetries
    /\ vfLast.called
    /\ vfLast.err = "none"
    /\ <<"aws", 0>> \in vfLast.ensured
    /\ "aws" \in DOMAIN verifyStatus
    /\ ~verificationJobsWithRetries(verifyConfig, verifyStatus).blockingJobFailure
    /\ "gcp" \notin VerificationStatusMap_Incomplete(verifyStatus, verifyConfig).names

\* ------------------------------------------------------------------------
\* Error propagation of the Verify orchestrator
\* ------------------------------------------------------------------------
\* the slots of an order that come after the first one of the set
RECURSIVE slotsAfter(_, _)
slotsAfter(order, names) ==
    IF order = <<>> THEN {}
    ELSE IF Head(order) \in names THEN {order[i] : i \in 2..Len(order)}
    ELSE slotsAfter(Tail(order), names)

\* the slots for which an ensure call of this reconcile was made
ensuredSlots(r) == {e[1] : e \in r.ensured}

\* C21: a reconcile in which an ensure call fails with a retryable error
\* returns that error and no status map, and asks for no re-enqueue; the
\* failing call is its last one, no slot after it in the order is ensured
\* and no job is created by the reconcile.  (Without an upgrade slot the
\* ensure calls are the only origin of a retryable error.)
C21_ErrorDropsStatus ==
    \A order \in Orders(DOMAIN verifyConfig), behind \in Lags(jobs), fault \in Faults :
        LET r == reconcileIn(order, behind, fault)
        IN  (r.err = "error" /\ \A s \in DOMAIN verifyConfig : ~verifyConfig[s].Upgrade) =>
                /\ r.returned
                /\ r.status = EmptyMap
                /\ r.addAfter = <<>>
                /\ \E name \in ensuredSlots(r) \cap fault :
                       slotsAfter(order, {name}) \cap ensuredSlots(r) = {}
                /\ r.jobs = jobs

\* a reconcile has ensured one slot, seen its job, and then failed on the
\* creation of the other slot's job: it returned the error and the
\* annotation still holds the first slot as Pending although its job is done
C21_Witness ==
    /\ vfLast.called
    /\ vfLast.err = "error"
    /\ ensuredSlots(vfLast) = Slots
    /\ \A s \in Slots : ~verifyConfig[s].Upgrade
    /\ "aws" \in DOMAIN verifyStatus
    /\ verifyStatus["aws"].State = releaseVerificationStatePending
    /\ jobs[prowJobName(TagName, "aws")].State # "triggered"

\* the enabled slots whose job reference the prow config does not define
Misconfigured ==
    {m \in DOMAIN verifyConfig : /\ ~verifyConfig[m].Disabled
                                 /\ verifyConfig[m].ProwJob # NoProwJob
                                 /\ ~hasProwJob(verifyConfig[m].ProwJob)}

\* C22 as stated: a slot whose job reference is not defined is skipped
\* only.  A reconcile returns the status of every other enabled slot that
\* has a job, and does not record the misconfigured slot as Failed.
C22_TerminalSkipsAsClaimed ==
    \A order \in Orders(DOMAIN verifyConfig), behind \in Lags(jobs) :
        LET r == reconcileIn(order, behind, {})
        IN  \A m \in Misconfigured :
                /\ \A s \in DOMAIN verifyConfig \ {m} :
                       (~verifyConfig[s].Disabled /\ hasProwJob(verifyConfig[s].ProwJob))
                           => s \in DOMAIN r.status
                /\ m \in DOMAIN r.status
                       => r.status[m].State # releaseVerificationStateFailed

\* a reconcile has ensured the job of the well-configured slot, met the
\* undefined job reference of the other slot and returned the terminal
\* error: the job runs and no status of it was ever persisted
C22_Witness ==
    /\ Misconfigured = {"gcp"}
    /\ vfLast.called
    /\ vfLast.err = "terminal"
    /\ "aws" \in ensuredSlots(vfLast)
    /\ prowJobName(TagName, "aws") \in DOMAIN jobs
    /\ "aws" \notin DOMAIN verifyStatus

\* ------------------------------------------------------------------------
\* Specification of the upgrade source resolver: getUpgradeSource called
\* once on a release, a tag and a set of stable releases.
\* ------------------------------------------------------------------------
UnknownUpgradeFrom == "Latest"

UpgradePolicies ==
    {"", releaseUpgradeFromPrevious, releaseUpgradeFromPreviousMinor,
     releaseUpgradeFromPreviousPatch, releaseUpgradeFromRallyPoint, UnknownUpgradeFrom}

\* the accepted tags of the stable line 4.5: any of 4.5.9 .. 4.5.12, and
\* above them the tags from 4.5.21 up to some patch, 4.5.30 among them or not
StableLines ==
    {{Version(4, 5, p) : p \in low \cup ((21..h) \ hole)} :
        low \in SUBSET (9..12), h \in 20..MaxPatch, hole \in {{}, {30}}}

\* the stable releases: none, the 4.5 release, or a 4.4 release before it
StableReleases ==
    {<<>>} \cup {<<s>> : s \in StableLines}
           \cup {<<{Version(4, 4, 7)}, s>> : s \in StableLines}

InitUpgrade ==
    /\ ProwEnvIdle
    /\ UpgradeJobsIdle
    /\ BackoffIdle
    /\ VerifyIdle
    /\ EnsureIdle
    /\ TestsIdle
    /\ EvalIdle
    /\ NamesIdle
    /\ now = 0
    /\ jobs = EmptyMap
    /\ accepted = <<>>
    /\ stable = NoStableReleases
    /\ rsArgs \in [mode : {NoMode, releaseConfigModeStable},
                    version : {TagVersion, Version(4, 0, 1), NoVersion},
                    acceptedTags : {<<>>, <<"4.5.2">>},
                    releases : StableReleases,
                    upgradeFrom : UpgradePolicies]
    /\ rsOut = NoSources

\* the call of getUpgradeSource
ResolveUpgrade ==
    /\ ~rsOut.called
    /\ \E r \in {getUpgradeSource(rsArgs.mode, rsArgs.version, rsArgs.acceptedTags,
                                   rsArgs.releases, rsArgs.upgradeFrom)} :
           rsOut' = [called |-> TRUE, sources |-> r.sources, err |-> r.err]
    /\ UNCHANGED rsArgs
    /\ UNCHANGED <<bkVars, envVars, vfVars, enVars, tsVars, evVars, nmVars, pjVars, ujVars>>

NextUpgrade == ResolveUpgrade

SpecUpgrade == InitUpgrade /\ [][NextUpgrade]_vars

\* the policy in force: upgradeFrom, or the default of the release mode
policyOf(args) ==
    IF args.upgradeFrom # "" THEN args.upgradeFrom
    ELSE IF args.mode = releaseConfigModeStable THEN releaseUpgradeFromPreviousPatch
    ELSE releaseUpgradeFromPrevious

KnownPolicies ==
    {releaseUpgradeFromPrevious, releaseUpgradeFromPreviousMinor,
     releaseUpgradeFromPreviousPatch, releaseUpgradeFromRallyPoint}

\* C23 as stated: the resolver returns an error exactly when the policy is
\* unknown; under a known policy it returns no error, and no source when no
\* accepted tag matches.
C23_ErrorIffUnknownAsClaimed ==
    rsOut.called => (rsOut.err <=> policyOf(rsArgs) \notin KnownPolicies)

\* the resolver was called under the default policy Previous for a release
\* without an accepted tag, and returned the error
C23_Witness ==
    /\ rsOut.called
    /\ rsArgs.upgradeFrom = ""
    /\ rsArgs.mode = NoMode
    /\ rsArgs.acceptedTags = <<>>
    /\ rsOut.err
    /\ rsOut.sources = <<>>

\* the accepted tags of the stable line of the tag, newest first: those of
\* the first stable release that has a tag of the line
lineOf(args) ==
    stableTags(args.releases, args.version,
               Cardinality(UNION {args.releases[i] : i \in DOMAIN args.releases}))

\* the sources are the first tags of the line
IsPrefix(sources, line) ==
    /\ Len(sources) <= Len(line)
    /\ \A i \in DOMAIN sources : sources[i] = tagNameOf(line[i])

\* the positions of the rally points in the line
rallyAt(line) == {i \in DOMAIN line : isRallyPoint(line[i])}

C24_NoPollingAsClaimed ==
    tsRun.repeated = {}

\* a call that is under way has ensured attempt 0 of a test twice, the job
\* is still running, and the loop stands at attempt 0 again
C24_Witness ==
    /\ tsRun.pc = "loop"
    /\ <<"aws", 0>> \in tsRun.repeated
    /\ tsRun.order # <<>>
    /\ Head(tsRun.order) = "aws"
    /\ tsRun.jobNo = 0
    /\ prowJobName(TagName, testJobName("additional", "aws", 0)) \in DOMAIN jobs
    /\ jobs[prowJobName(TagName, testJobName("additional", "aws", 0))].State = "triggered"
    /\ attemptsOf(tsRun.status, "aws")[1].State = releaseVerificationStatePending

\* ------------------------------------------------------------------------
\* Timing of the retries of the Verify orchestrator
\* ------------------------------------------------------------------------
\* the slots persisted as Failed that have a retry left
RetryPending ==
    {name \in DOMAIN verifyConfig \cap DOMAIN verifyStatus :
        /\ ~verifyConfig[name].Disabled
        /\ verifyConfig[name].ProwJob # NoProwJob
        /\ verifyStatus[name].State = releaseVerificationStateFailed
        /\ verifyStatus[name].Retries < verifyConfig[name].MaxRetries}

\* C26 as stated: the job of a retry is not ensured before its backoff has
\* elapsed since the transition time of the failed attempt.  No reconcile
\* ensures the next attempt of a Failed slot less than one minute, the
\* base of the backoff, after that time.
C26_RetryWaitsAsClaimed ==
    \A name \in RetryPending :
        (/\ verifyStatus[name].TransitionTime # NilTime
         /\ now - verifyStatus[name].TransitionTime < BackoffBase) =>
            \A behind \in Lags(jobs), fault \in Faults :
                <<name, verifyStatus[name].Retries + 1>>
                    \notin reconcileOnly(name, behind, fault).ensured

\* the first job of a slot failed in this minute and a reconcile of the
\* same minute has ensured the job of the first retry
C26_Witness ==
    /\ vfLast.called
    /\ <<"aws", 1>> \in vfLast.ensured
    /\ prowJobName(TagName, "aws") \in DOMAIN jobs
    /\ jobs[prowJobName(TagName, "aws")].State = "failure"
    /\ jobs[prowJobName(TagName, "aws")].CompletionTime = now
    /\ prowJobName(TagName, verifyJobName("aws", 1)) \in DOMAIN jobs

\* C27 as stated: a reconcile that ends without error and leaves an
\* enabled slot Failed with a retry left has called AddAfter with a
\* positive delay.
C27_FailedAsksReenqueueAsClaimed ==
    (vfLast.called /\ vfLast.err = "none" /\ RetryPending # {}) =>
        /\ vfLast.addAfter # <<>>
        /\ \A i \in DOMAIN vfLast.addAfter : vfLast.addAfter[i] > 0

\* a reconcile saw the first job of a slot failed, persisted Failed with
\* retries 0 of 2, computed the backoff 0 and returned without AddAfter
C27_Witness ==
    /\ vfLast.called
    /\ vfLast.err = "none"
    /\ "aws" \in RetryPending
    /\ verifyStatus["aws"].Retries = 0
    /\ verifyConfig["aws"].MaxRetries = MaxMaxRetries
    /\ vfLast.computed = <<0>>
    /\ vfLast.addAfter = <<>>
    /\ <<"aws", 0>> \in vfLast.ensured

\* ------------------------------------------------------------------------
\* Recording of a new attempt by ensureCandidateTests
\* ------------------------------------------------------------------------
\* the reconcile of the candidate tests of the present tag with the test
\* name as its only test
candidateOnly(name, behind, fault) ==
    ensureCandidateTests((name :> testConfig[name]), testAnnotation, jobs,
                         <<name>>, behind, fault, now)

\* the tests whose next attempt is absent: the recorded attempts are all
\* finished and the scan of them ends behind the last with an index that
\* the test's retries allow
NextAttemptAbsent ==
    {name \in DOMAIN testConfig :
        /\ ~testConfig[name].Disabled
        /\ hasProwJob(testConfig[name].ProwJob)
        /\ ~testConfig[name].Upgrade
        /\ LET list == attemptsOf(testStatus, name)
               scan == candidateScan(list, testConfig[name], 0, 0)
           IN  /\ scan.jobNo = Len(list)
               /\ scan.jobNo <= testConfig[name].MaxRetries}

\* C28 as stated: when attempt i of a candidate test is absent, a
\* reconcile that meets no error of the job facade ensures the job of
\* (test, i) and returns the test's list with i + 1 entries, the new
\* status last and the recorded attempts before it unchanged.
C28_AbsentAttemptAppendedAsClaimed ==
    testFamily = "candidate" =>
        \A name \in NextAttemptAbsent, behind \in Lags(jobs) :
            LET list == attemptsOf(testStatus, name)
                r == candidateOnly(name, behind, {})
            IN  /\ r.err = "none"
                /\ <<name, Len(list)>> \in r.ensured
                /\ name \in DOMAIN r.status
                /\ Len(r.status[name]) = Len(list) + 1
                /\ \A k \in DOMAIN list : r.status[name][k] = list[k]

\* attempt 0 of a test is recorded as Failed; a reconcile has created the
\* job of attempt 1 and panicked on the store of its status, and the
\* list still has the one entry
C28_Witness ==
    /\ testFamily = "candidate"
    /\ "aws" \in NextAttemptAbsent
    /\ Len(attemptsOf(testStatus, "aws")) = 1
    /\ tsLast.called
    /\ tsLast.err = "panic"
    /\ <<"aws", 1>> \in tsLast.ensured
    /\ prowJobName(TagName, testJobName("candidate", "aws", 1)) \in DOMAIN jobs

\* ------------------------------------------------------------------------
\* Order of the attempts of a slot
\* ------------------------------------------------------------------------
\* the prow job of attempt i of a slot under the orchestrator that runs
attemptJob(name, i) ==
    prowJobName(TagName, IF testFamily = "additional"
                         THEN testJobName("additional", name, i)
                         ELSE verifyJobName(name, i))

\* the attempts before the i-th one are all recorded in the list as finished
FinishedBefore(list, i) ==
    /\ i <= Len(list)
    /\ \A k \in 1..i : Terminal(list[k])

WithoutSource ==
    {name \in DOMAIN verifyConfig :
        /\ ~verifyConfig[name].Disabled
        /\ hasProwJob(verifyConfig[name].ProwJob)
        /\ verifyConfig[name].Upgrade
        /\ verifyConfig[name].UpgradeFrom = ""
        /\ accepted = <<>>}

\* C30 as stated: an upgrade slot without an upgrade source is recorded
\* as Succeeded and the reconcile goes on.  It returns no error and a
\* status map that holds the slot as Succeeded and every other enabled
\* slot with a job.
C30_NoSourceSucceedsAsClaimed ==
    \A name \in WithoutSource :
        \A order \in Orders(DOMAIN verifyConfig), behind \in Lags(jobs) :
            LET r == reconcileIn(order, behind, {})
            IN  /\ r.err = "none"
                /\ name \in DOMAIN r.status
                /\ r.status[name].State = releaseVerificationStateSucceeded
                /\ \A s \in DOMAIN verifyConfig \ {name} :
                       (~verifyConfig[s].Disabled /\ hasProwJob(verifyConfig[s].ProwJob))
                           => s \in DOMAIN r.status

\* a reconcile has created the job of the first slot, found no upgrade
\* source for the second and returned the resolver's error: no status of
\* either slot is persisted
C30_Witness ==
    /\ WithoutSource = {"gcp"}
    /\ vfLast.called
    /\ vfLast.err = "error"
    /\ vfLast.ensured = {<<"aws", 0>>}
    /\ prowJobName(TagName, "aws") \in DOMAIN jobs
    /\ verifyStatus = EmptyMap


\* ------------------------------------------------------------------------
\* Claims about the fan-out of a candidate upgrade test
\* ------------------------------------------------------------------------
\* the upgrade sources of a candidate test of the config
sourcesOf(name) ==
    getUpgradeSource(NoMode, TagVersion, accepted, stable, testConfig[name].UpgradeFrom)

\* an enabled upgrade test of the config that has a prow job, in a config
\* whose upgrade tests all resolve their sources
FansOut(name) ==
    /\ testFamily = "candidate"
    /\ ~testConfig[name].Disabled
    /\ testConfig[name].ProwJob # NoProwJob
    /\ testConfig[name].Upgrade
    /\ \A n \in DOMAIN testConfig :
           (~testConfig[n].Disabled /\ testConfig[n].Upgrade) => ~sourcesOf(n).err

\* the candidate test stored under a name carries this source
CarriesSource(name, tag) ==
    /\ name \in DOMAIN candidateTests
    /\ candidateTests[name].UpgradeTag = tag
    /\ candidateTests[name].UpgradeRef = pullSpecOf(tag)

\* C31: an upgrade test that resolves more than one source becomes one
\* candidate test per source, named <slot>-<fromTag> and carrying the tag
\* and pull spec of that source, and none under its own name; with exactly
\* one source the test keeps its name and carries that source.
C31_OneSlotPerSource ==
    \A name \in DOMAIN testConfig : FansOut(name) =>
        LET sources == sourcesOf(name).sources
            upgrades == {n \in DOMAIN candidateTests : candidateTests[n].UpgradeTag # ""}
        IN  IF Len(sources) > 1
            THEN /\ \A i \in DOMAIN sources :
                        CarriesSource(name \o "-" \o sources[i], sources[i])
                 /\ name \notin DOMAIN candidateTests
                 /\ Cardinality(upgrades) = Len(sources)
            ELSE /\ CarriesSource(name, sources[1])
                 /\ upgrades = {name}

\* a reconcile has ensured the first job of a test fanned out of gcp, and
\* the jobs of both sources of the stable line exist
C31_Witness ==
    /\ FansOut("gcp")
    /\ Len(sourcesOf("gcp").sources) = 2
    /\ tsLast.called
    /\ \E tag \in {"4.5.1", "4.5.2"} : <<"gcp-" \o tag, 0>> \in tsLast.ensured
    /\ prowJobName(TagName, "gcp-4.5.1") \in DOMAIN jobs
    /\ prowJobName(TagName, "gcp-4.5.2") \in DOMAIN jobs
    /\ prowJobName(TagName, "gcp") \notin DOMAIN jobs

\* ------------------------------------------------------------------------
\* Claims about the retry delay of the candidate tests
\* ------------------------------------------------------------------------
\* the tests whose attempt under way is seen Failed by a reconcile with
\* further attempts allowed: the scan ends at a recorded attempt that is
\* not finished, below maxRetries, and the job of that attempt has failed
ObservedFailed ==
    {name \in DOMAIN testConfig :
        /\ testFamily = "candidate"
        /\ ~testConfig[name].Disabled
        /\ hasProwJob(testConfig[name].ProwJob)
        /\ ~testConfig[name].Upgrade
        /\ LET list == attemptsOf(testStatus, name)
               scan == candidateScan(list, testConfig[name], 0, 0)
               job == prowJobName(TagName, verifyJobName(name, scan.jobNo))
           IN  /\ scan.jobNo < Len(list)
               /\ scan.jobNo < testConfig[name].MaxRetries
               /\ job \in DOMAIN jobs
               /\ prowJobVerificationStatus(jobs[job]).State = releaseVerificationStateFailed}

\* C32 as stated: the delay computed when an attempt is seen Failed is the
\* backoff of the number of consecutive Failed attempts that end at that
\* attempt, the attempt itself counted.
C32_ConsecutiveFailuresAsClaimed ==
    \A name \in ObservedFailed :
        LET list == attemptsOf(testStatus, name)
            scan == candidateScan(list, testConfig[name], 0, 0)
            job == jobs[prowJobName(TagName, verifyJobName(name, scan.jobNo))]
            r == candidateOnly(name, {}, {})
        IN  r.computed = <<calculateBackoff(scan.failed + 1, job.CompletionTime, now)>>

\* what the code computes: the backoff of the Failed attempts recorded
\* before the attempt under way since the last Succeeded one, so that the
\* first failure of a streak has the delay 0
C32_PrecedingFailures ==
    \A name \in ObservedFailed :
        LET list == attemptsOf(testStatus, name)
            scan == candidateScan(list, testConfig[name], 0, 0)
            job == jobs[prowJobName(TagName, verifyJobName(name, scan.jobNo))]
            r == candidateOnly(name, {}, {})
        IN  r.computed = <<calculateBackoff(scan.failed, job.CompletionTime, now)>>

\* a reconcile has seen attempt 1 of a test Failed after a Succeeded
\* attempt 0, with an attempt left, and has asked for no requeue
C32_Witness ==
    /\ testFamily = "candidate"
    /\ tsLast.called
    /\ tsLast.err = "none"
    /\ tsLast.addAfter = <<>>
    /\ <<"aws", 1>> \in tsLast.ensured
    /\ testConfig["aws"].MaxRetries = MaxMaxRetries
    /\ testConfig["aws"].RetryStrategy = RetryStrategyTillMaxRetries
    /\ Len(attemptsOf(testStatus, "aws")) = 2
    /\ testStatus["aws"][1].State = releaseVerificationStateSucceeded
    /\ testStatus["aws"][2].State = releaseVerificationStateFailed
    /\ testStatus["aws"][2].TransitionTime = now

\* ------------------------------------------------------------------------
\* Claims about a recorded attempt with an unrecognized state
\* ------------------------------------------------------------------------
\* the list has an attempt whose state is none of Pending, Succeeded, Failed
Unrecognized(list) ==
    \E i \in DOMAIN list :
        list[i].State \notin {releaseVerificationStatePending,
                              releaseVerificationStateSucceeded,
                              releaseVerificationStateFailed}

\* the additional tests abandon a test with such an attempt: no call has
\* ensured a job for it, and the call under way holds its list as recorded
C33_AdditionalAbandons ==
    testFamily = "additional" =>
        \A name \in DOMAIN testStatus : Unrecognized(testStatus[name]) =>
            /\ \A e \in tsRun.ensured \cup tsLast.ensured : e[1] # name
            /\ tsRun.pc = "loop" => attemptsOf(tsRun.status, name) = testStatus[name]

\* C33 as stated: a reconcile of either orchestrator abandons a test that
\* has a recorded attempt with an unrecognized state: it ensures no job for
\* the test and returns its list as recorded.
C33_UnrecognizedAbandonsAsClaimed ==
    /\ C33_AdditionalAbandons
    /\ testFamily = "candidate" =>
           \A name \in DOMAIN testStatus \cap DOMAIN testConfig, behind \in Lags(jobs) :
               (/\ Unrecognized(testStatus[name])
                /\ ~testConfig[name].Disabled
                /\ ~testConfig[name].Upgrade) =>
                   \E r \in {candidateOnly(name, behind, {})} :
                       /\ r.err = "none"
                       /\ \A e \in r.ensured : e[1] # name
                       /\ attemptsOf(r.status, name) = testStatus[name]

\* a reconcile of the candidate tests has ensured the job of an attempt
\* whose recorded state is unrecognized
C33_Witness ==
    /\ testFamily = "candidate"
    /\ tsLast.called
    /\ "aws" \in DOMAIN testStatus
    /\ \E k \in DOMAIN testStatus["aws"] :
           /\ testStatus["aws"][k].State = UnrecognizedState
           /\ <<"aws", k - 1>> \in tsLast.ensured

\* ------------------------------------------------------------------------
\* Claims about the strategy FirstFailure
\* ------------------------------------------------------------------------
\* a test under FirstFailure with a persisted attempt that is Failed
HeldByFailure(name) ==
    /\ name \in DOMAIN testStatus
    /\ name \in DOMAIN testConfig
    /\ testConfig[name].RetryStrategy = RetryStrategyFirstFailure
    /\ \E i \in DOMAIN testStatus[name] :
           testStatus[name][i].State = releaseVerificationStateFailed

\* the additional tests stop at the first failure: a call that runs while
\* the test is held has ensured no job for it and holds its list as recorded
C34_AdditionalStops ==
    \A name \in Slots : (HeldByFailure(name) /\ tsRun.pc = "loop") =>
        /\ \A e \in tsRun.ensured : e[1] # name
        /\ tsRun.status[name] = testStatus[name]

\* C34 as stated: under FirstFailure, once a persisted attempt of a test is
\* Failed, no reconcile of either orchestrator ensures a job for that test.
C34_FirstFailureStopsAsClaimed ==
    /\ C34_AdditionalStops
    /\ \A name \in Slots : (HeldByFailure(name) /\ testFamily = "candidate") =>
           \A behind \in Lags(jobs), fault \in Faults :
               \E r \in {candidateOnly(name, behind, fault)} :
                   \A e \in r.ensured : e[1] # name

\* a candidate test under FirstFailure whose attempt 0 is recorded as
\* Failed, after a reconcile that ensured the job of attempt 1
C34_Witness ==
    /\ testFamily = "candidate"
    /\ HeldByFailure("aws")
    /\ testStatus["aws"][1].State = releaseVerificationStateFailed
    /\ tsLast.called
    /\ <<"aws", 1>> \in tsLast.ensured
    /\ prowJobName(TagName, verifyJobName("aws", 1)) \in DOMAIN jobs

\* ------------------------------------------------------------------------
\* Specification of the job facade over the environment of the job: the
\* first ensure of a verification whose periodic declares some variables,
\* for a release that can supply some of them.
\* ------------------------------------------------------------------------
\* the most variables a pod spec declares
MaxDeclared == 2

DeclaredEnv ==
    {"RELEASE_IMAGE_LATEST", "RELEASE_IMAGE_INITIAL", "IMAGE_FORMAT", "IMAGE_TESTS", "HOME"}

InitProwEnv ==
    /\ BackoffIdle
    /\ VerifyIdle
    /\ EnsureIdle
    /\ TestsIdle
    /\ EvalIdle
    /\ NamesIdle
    /\ ResolveIdle
    /\ UpgradeJobsIdle
    /\ now = 0
    /\ jobs = EmptyMap
    /\ accepted = <<>>
    /\ stable = NoStableReleases
    /\ pjSpec \in UNION {[1..n -> DeclaredEnv] : n \in 0..MaxDeclared}
    /\ pjEnv \in [repository : BOOLEAN, accepted : BOOLEAN, mirror : BOOLEAN]
    /\ pjOut = NoEnsured

\* ensureProwJobForReleaseTag for a name that has no job yet
EnsureProwEnv ==
    /\ ~pjOut.called
    /\ \E pj \in {prowJobWithEnv(pjSpec, buildKVMapsForProwJob(pjEnv), now)} :
        \E r \in {IF pj.err # "create"
                   THEN [out |-> pj.out, err |-> pj.err, jobs |-> jobs]
                   ELSE ensureProwJob(jobs, ListerCache(jobs, {}),
                                      prowJobName(TagName, "aws"), "none")} :
            /\ jobs' = r.jobs
            /\ pjOut' = [called |-> TRUE, out |-> r.out.State, err |-> r.err]
    /\ UNCHANGED <<now, accepted, stable, pjSpec, pjEnv>>
    /\ UNCHANGED <<bkVars, vfVars, enVars, tsVars, evVars, nmVars, rsVars, ujVars>>

NextProwEnv == EnsureProwEnv

SpecProwEnv == InitProwEnv /\ [][NextProwEnv]_vars

\* the pod spec declares IMAGE_FORMAT or an IMAGE_<component> variable
DemandsImage == \E i \in DOMAIN pjSpec : pjSpec[i] = "IMAGE_FORMAT" \/ pjSpec[i] \in ImageEnv

\* C35 as stated: the ensure of a job whose spec declares an image variable
\* that the release cannot supply fails with a terminal error, creates no
\* job and returns no synthetic Succeeded job.
C35_MissingImageTerminalAsClaimed ==
    (pjOut.called /\ DemandsImage /\ ~pjEnv.mirror) =>
        /\ pjOut.err = "terminal"
        /\ jobs = EmptyMap
        /\ pjOut.out # "success"

\* what the code does: the ensure fails with a plain error and creates no
\* job, unless a release variable declared before it is missing too
C35_MissingImageFails ==
    (/\ pjOut.called /\ DemandsImage /\ ~pjEnv.mirror
     /\ \A i \in DOMAIN pjSpec :
            pjSpec[i] \in {"RELEASE_IMAGE_LATEST", "RELEASE_IMAGE_INITIAL"}
                => pjSpec[i] \in buildKVMapsForProwJob(pjEnv)) =>
        /\ pjOut.err = "error"
        /\ jobs = EmptyMap
        /\ pjOut.out # "success"

\* the ensure of a job that declares IMAGE_FORMAT for a release without a
\* mirror has failed with a plain error
C35_Witness ==
    /\ pjOut.called
    /\ pjSpec = <<"IMAGE_FORMAT">>
    /\ ~pjEnv.mirror
    /\ pjOut.err = "error"
    /\ jobs = EmptyMap

\* ------------------------------------------------------------------------
\* Specification of the upgrade tests of ensureAdditionalTests: the tests
\* it ranges over, for a tag whose upgrades from the stable tags are
\* recorded in the upgrade graph one result after the other.
\* ------------------------------------------------------------------------
\* the most results the graph records for one upgrade edge
MaxRecorded == 3

\* retryCount := 2 of ensureAdditionalTests
AdditionalRetryCount == 2

\* the accepted tags of the stable release: two of the line of the tag
\* under reconcile, one of the line before
UpgradeStableTags == {Version(4, 5, 1), Version(4, 5, 2), Version(4, 4, 9)}

\* c.graph.UpgradesTo(releaseTag.Name): the history of each upgrade edge
\* that ends at the tag, one entry per source tag with the count of its
\* results
UpgradesTo(graph) ==
    {[From |-> from, Total |-> graph[from]] : from \in {f \in DOMAIN graph : graph[f] > 0}}

\* upgradesFound[u.From]++ for each u of upgrades
upgradesFound(graph, from) == Cardinality({u \in UpgradesTo(graph) : u.From = from})

prowJobPrefix == "e2e-aws-upgrade-"

\* testName of upgradeJobs for a stable version
upgradeTestName(v) ==
    prowJobPrefix \o ToString(v.Major) \o "." \o ToString(v.Minor)
        \o "." \o ToString(v.Patch)

\* the test upgradeJobs synthesizes for a stable version
upgradeTest(v, retryCount) ==
    [Disabled |-> FALSE, Optional |-> TRUE, Upgrade |-> TRUE, UpgradeFrom |-> "",
     ProwJob |-> prowJobPrefix \o ToString(v.Major) \o "." \o ToString(v.Minor),
     MaxRetries |-> 0, UpgradeTag |-> tagNameOf(v),
     UpgradeRef |-> PublicDockerImageRepository,
     RetryStrategy |-> RetryStrategyFirstSuccess, RetryCount |-> retryCount]

\* upgradeJobs(release, releaseTag, retryCount): nothing for a tag without
\* keep annotation; else a test per accepted stable tag of the line of the
\* tag for which upgradesFound is below retryCount
upgradeJobs(tag, graph, tags, retryCount) ==
    IF ~tag.keep
    THEN EmptyMap
    ELSE LET from == {v \in tags :
                         /\ ~(upgradesFound(graph, tagNameOf(v)) >= retryCount)
                         /\ v.Major = TagVersion.Major
                         /\ v.Minor = TagVersion.Minor}
         IN  [name \in {upgradeTestName(v) : v \in from} |->
                 upgradeTest(CHOOSE v \in from : upgradeTestName(v) = name, retryCount)]

\* the tests ensureAdditionalTests ranges over: those of upgradeJobs, each
\* overwritten by a test of the config with its name
additionalTests(tag, graph, tags, config) ==
    config @@ upgradeJobs(tag, graph, tags, AdditionalRetryCount)

\* the additional tests a config has: none, or one with the name of the
\* upgrade test from 4.5.2
UpgradeJobConfigs ==
    {EmptyMap,
     (upgradeTestName(Version(4, 5, 2)) :>
          Test(FALSE, FALSE, "e2e", RetryStrategyTillRetryCount, 0, 1))}

InitUpgradeJobs ==
    /\ BackoffIdle
    /\ VerifyIdle
    /\ EnsureIdle
    /\ TestsIdle
    /\ EvalIdle
    /\ NamesIdle
    /\ ResolveIdle
    /\ ProwEnvIdle
    /\ now = 0
    /\ jobs = EmptyMap
    /\ accepted = <<>>
    /\ stable = <<UpgradeStableTags>>
    /\ ujTag \in [keep : BOOLEAN]
    /\ ujGraph = [from \in {tagNameOf(v) : v \in UpgradeStableTags} |-> 0]
    /\ ujConfig \in UpgradeJobConfigs
    /\ ujOut = NoUpgradeTests

\* the graph records the result of one more upgrade from a stable tag
RecordUpgrade ==
    /\ \E from \in DOMAIN ujGraph :
           /\ ujGraph[from] < MaxRecorded
           /\ ujGraph' = [ujGraph EXCEPT ![from] = @ + 1]
    /\ UNCHANGED <<ujTag, ujConfig, ujOut>>
    /\ UNCHANGED <<bkVars, envVars, vfVars, enVars, tsVars, evVars, nmVars, rsVars, pjVars>>

\* a reconcile: ensureAdditionalTests up to the range over additionalTests
UpgradeJobsSync ==
    /\ \E tests \in {additionalTests(ujTag, ujGraph, stable[1], ujConfig)} :
           ujOut' = [called |-> TRUE, tests |-> tests]
    /\ UNCHANGED <<ujTag, ujGraph, ujConfig>>
    /\ UNCHANGED <<bkVars, envVars, vfVars, enVars, tsVars, evVars, nmVars, rsVars, pjVars>>

NextUpgradeJobs ==
    \/ RecordUpgrade
    \/ UpgradeJobsSync

SpecUpgradeJobs == InitUpgradeJobs /\ [][NextUpgradeJobs]_vars

\* the stable tags of the line of the tag under reconcile
LineTags == {v \in UpgradeStableTags : v.Major = TagVersion.Major /\ v.Minor = TagVersion.Minor}

\* C36 as stated: a reconcile synthesizes the test e2e-aws-upgrade-<version>
\* of a stable tag only while the upgrades recorded from that tag to the
\* tag under reconcile are fewer than retryCount, and a test of the config
\* with that name replaces the synthesized one.
C36_SynthesizedWhileBelowAsClaimed ==
    \A v \in UpgradeStableTags :
        LET name == upgradeTestName(v)
            synthesized == upgradeJobs(ujTag, ujGraph, stable[1], AdditionalRetryCount)
            tests == additionalTests(ujTag, ujGraph, stable[1], ujConfig)
        IN  /\ name \in DOMAIN synthesized =>
                   /\ v \in LineTags
                   /\ ujGraph[tagNameOf(v)] < AdditionalRetryCount
            /\ name \in DOMAIN ujConfig => tests[name] = ujConfig[name]

\* what the code does: for a tag with the keep annotation the test of every
\* stable tag of the line is synthesized whatever the graph has recorded,
\* and a test of the config with that name replaces it
C36_SynthesizedWhateverRecorded ==
    \A v \in UpgradeStableTags :
        LET name == upgradeTestName(v)
            synthesized == upgradeJobs(ujTag, ujGraph, stable[1], AdditionalRetryCount)
            tests == additionalTests(ujTag, ujGraph, stable[1], ujConfig)
        IN  /\ name \in DOMAIN synthesized <=> (ujTag.keep /\ v \in LineTags)
            /\ name \in DOMAIN ujConfig => tests[name] = ujConfig[name]

\* a reconcile has ranged over the synthesized test of 4.5.1 although the
\* graph has recorded retryCount upgrades from 4.5.1
C36_Witness ==
    /\ ujOut.called
    /\ ujGraph["4.5.1"] >= AdditionalRetryCount
    /\ ujOut.tests = additionalTests(ujTag, ujGraph, stable[1], ujConfig)
    /\ upgradeTestName(Version(4, 5, 1)) \in DOMAIN ujOut.tests
    /\ ujOut.tests[upgradeTestName(Version(4, 5, 1))].UpgradeTag = "4.5.1"

\* ------------------------------------------------------------------------
\* Claims about the verdicts on the Verify status over later reconciles
\* ------------------------------------------------------------------------
\* verificationJobsWithRetries reports a blocking failure for the status
BlockingFailure(status) ==
    verificationJobsWithRetries(verifyConfig, status).blockingJobFailure

\* C37: once the persisted status of the tag has a blocking failure, it has
\* one after every later step: a reconcile leaves a required slot that is
\* Failed with its retries used up as it is.
C37_BlockingFailureKept ==
    [][BlockingFailure(verifyStatus) => BlockingFailure(verifyStatus')]_vars

\* a reconcile without error has run on a status with a blocking failure
\* and has returned that status
C37_Witness ==
    /\ vfLast.called
    /\ vfLast.err = "none"
    /\ vfLast.same
    /\ BlockingFailure(verifyStatus)

\* VerificationStatusMap.Incomplete reports no slot for the status
Complete(status) == ~VerificationStatusMap_Incomplete(status, verifyConfig).ok

\* C38 as stated: once Incomplete reports no slot for the persisted status,
\* it reports none after every later reconcile.
C38_CompleteStaysAsClaimed ==
    [][Complete(verifyStatus) => Complete(verifyStatus')]_vars

\* every enabled slot is Succeeded, or Failed with its retries used up
Settled(status) ==
    /\ Complete(status)
    /\ verificationJobsWithRetries(verifyConfig, status).names = {}

\* C38: once every enabled slot is Succeeded or Failed with no retry left,
\* Incomplete reports no slot after every later reconcile; a Failed slot
\* with a retry left is ensured again and is Pending in between.
C38_SettledStaysComplete ==
    [][Settled(verifyStatus) => Settled(verifyStatus')]_vars

\* a reconcile without error has run on a settled status in which a slot
\* is Failed, and has returned that status
C38_Witness ==
    /\ vfLast.called
    /\ vfLast.err = "none"
    /\ vfLast.same
    /\ Settled(verifyStatus)
    /\ \E name \in DOMAIN verifyStatus \cap DOMAIN verifyConfig :
           /\ ~verifyConfig[name].Disabled
           /\ verifyStatus[name].State = releaseVerificationStateFailed

\* ------------------------------------------------------------------------
\* Claims about the agreement of the candidate tests with their evaluator
\* ------------------------------------------------------------------------
\* the enabled tests of the config that VerificationStatusList.Incomplete
\* reports as complete for the persisted status
CompleteTests ==
    {name \in DOMAIN testConfig :
        /\ testFamily = "candidate"
        /\ ~testConfig[name].Disabled
        /\ name \notin VerificationStatusList_Incomplete(testStatus, testConfig)}

\* no reconcile of the candidate tests ensures a job for the test
NoJobEnsured(name) ==
    \A order \in RangeOrders, behind \in Lags(jobs), fault \in Faults :
        \A e \in ensureCandidateTests(testConfig, testAnnotation, jobs,
                                      order, behind, fault, now).ensured : e[1] # name

\* C39 as stated: a test that the evaluator reports as complete gets no
\* job from the next reconcile of the candidate tests.
C39_CompleteMeansNoJobAsClaimed ==
    \A name \in CompleteTests : NoJobEnsured(name)

\* the two agree for every test whose config names its strategy
C39_AgreeWhereStrategyNamed ==
    \A name \in CompleteTests :
        testConfig[name].RetryStrategy # NoRetryStrategy => NoJobEnsured(name)

\* a test without strategy whose attempt 0 is Succeeded is complete for
\* the evaluator, and a reconcile has ensured the job of its attempt 1
C39_Witness ==
    /\ "aws" \in CompleteTests
    /\ testConfig["aws"].RetryStrategy = NoRetryStrategy
    /\ testStatus["aws"][1].State = releaseVerificationStateSucceeded
    /\ tsLast.called
    /\ <<"aws", 1>> \in tsLast.ensured
    /\ Len(testStatus["aws"]) < testConfig["aws"].MaxRetries + 1

\* ------------------------------------------------------------------------
\* Claims about the state of a candidate test
\* ------------------------------------------------------------------------
\* the attempts of test aws handed to ReleaseCandidateTest.state
evAttempts == attemptsOf(evStatus, "aws")

HasAttempt(state) == \E i \in DOMAIN evAttempts : evAttempts[i].State = state

\* C40 as stated: the state of a test is not Succeeded when none of its
\* attempts is Succeeded; it is Failed when there are attempts and all are
\* Failed, and Pending when an attempt is Pending.
C40_StateFollowsAttemptsAsClaimed ==
    evOut.called =>
        /\ ~HasAttempt(releaseVerificationStateSucceeded)
               => evOut.state # releaseVerificationStateSucceeded
        /\ (/\ evAttempts # <<>>
            /\ \A i \in DOMAIN evAttempts :
                   evAttempts[i].State = releaseVerificationStateFailed)
               => evOut.state = releaseVerificationStateFailed
        /\ HasAttempt(releaseVerificationStatePending)
               => evOut.state = releaseVerificationStatePending

\* what the code does for attempts that are all Failed: outside the wait of
\* TillMaxRetries for all attempts, the state is Failed for two attempts
\* or more and Succeeded for one
C40_AllFailedByCount ==
    (/\ evOut.called
     /\ evAttempts # <<>>
     /\ \A i \in DOMAIN evAttempts : evAttempts[i].State = releaseVerificationStateFailed
     /\ ~(/\ evConfig["aws"].RetryStrategy = RetryStrategyTillMaxRetries
          /\ Len(evAttempts) < evConfig["aws"].MaxRetries + 1)) =>
        evOut.state = IF Len(evAttempts) >= 2
                      THEN releaseVerificationStateFailed
                      ELSE releaseVerificationStateSucceeded

\* the state of a test whose only attempt is Failed was asked for and is
\* Succeeded
C40_Witness ==
    /\ evOut.called
    /\ Len(evAttempts) = 1
    /\ evAttempts[1].State = releaseVerificationStateFailed
    /\ evConfig["aws"].RetryStrategy = RetryStrategyFirstSuccess
    /\ evOut.state = releaseVerificationStateSucceeded
====
